---------------------------- MODULE Spec2Model ----------------------------
(***************************************************************************)
(* The agent orchestration engine of digitalarchitects: the tool registry, *)
(* the tool dispatcher (ArchitectToolManager) with its result cache, and   *)
(* the DigitalArchitect request state machine with its memory layer.       *)
(*                                                                         *)
(* Numbers in [0,1] are kept in tenths (0.7 is 7); memory importances are  *)
(* kept in hundredths (0.85 is 85).                                        *)
(*                                                                         *)
(* The two revisions of DigitalArchitect are read as one stack: the class  *)
(* of digitalarchitects/core (memory tracking) calls, through super(), the *)
(* class of agents/core (analysis, gate, process loop, task execution).    *)
(***************************************************************************)
EXTENDS Integers, Sequences, FiniteSets, TLC

VARIABLES
    tools,              \* ToolRegistry.tools, in registration order
    softwareOK,         \* environment: what is_software_available answers
    current_task_tools, \* ArchitectToolManager.current_task_tools
    tool_cache,         \* ArchitectToolManager.tool_cache
    invoked,            \* Tool.execute calls of the latest chain or registry call
    passed,             \* the keyword arguments of those Tool.execute calls
    cache_owner,        \* per cache entry: the task type whose chain wrote it
    lastOp,             \* the dispatcher/registry call made by the last step
    lastChain,          \* per task type: the latest execute_tool_chain call
    connected,          \* ws_manager.is_connected
    pc,                 \* position of the handle_request call in flight
    analysis_response,  \* what the language model answered to the analysis
    understanding,      \* the analysis of the call in flight
    results,            \* _handle_process: TaskResults collected so far
    started,            \* positions in required_tasks of the tasks started
    procResult,         \* what _execute_request returned to handle_request
    baseResult,         \* what the inner handle_request returned
    response,           \* what handle_request returned
    escaped,            \* an exception left handle_request
    memory_log,         \* MemoryManager: the appended records
    calls,              \* number of handle_request calls started
    current_context,    \* self.current_context while calls run concurrently
    flight              \* per concurrent handle_request call: where it stands

vars == <<tools, softwareOK, current_task_tools, tool_cache, invoked, passed,
          cache_owner, lastOp, lastChain, connected, pc, analysis_response,
          understanding, results, started, procResult, baseResult, response,
          escaped, memory_log, calls, current_context, flight>>

toolVars == <<tools, softwareOK, current_task_tools, tool_cache, invoked,
              passed, cache_owner, lastOp, lastChain>>
callVars == <<connected, pc, analysis_response, understanding, results,
              started, procResult, baseResult, response, escaped, memory_log,
              calls, current_context, flight>>

-----------------------------------------------------------------------------
(* Bounds of the model *)

MaxCalls == 2       \* handle_request calls in one run of Spec
GateCalls == 1      \* handle_request calls in one run of SpecGate
MaxPlanLen == 3     \* tasks in a plan the language model proposes
MaxLog == 2         \* records in the log when SpecTaskMemory takes a task

-----------------------------------------------------------------------------
(* Tools, task types, tool outcomes *)

TaskTypes == {"analyze_site", "place_structure"}
ToolNames == {"scanner", "builder"}

\* Tool descriptors (base_tool.Tool).  requirements holds the keys of the
\* requirements mapping; the value of the "software" key is one program name.
Scanner == [name |-> "scanner", supported_tasks |-> {"analyze_site"},
            requirements |-> {}]
Builder == [name |-> "builder",
            supported_tasks |-> {"analyze_site", "place_structure"},
            requirements |-> {"software"}]
Builder2 == [name |-> "builder", supported_tasks |-> {"place_structure"},
             requirements |-> {"user_request"}]
ToolUniverse == {Scanner, Builder, Builder2}

\* What one call of Tool.execute does: it returns a raw result or it raises.
ToolOutputs == {"done", "needs_input"}
Outcomes == ToolOutputs \cup {"raise"}

\* Exception messages, as str(e) gives them.
NoError == "none"
MsgDuplicate == "Tool with name is already registered."
MsgNoCompatible == "No compatible tools found for task"
MsgReqNotMet == "Requirements not met for tool"
MsgNoLogger == "'ArchitectToolManager' object has no attribute 'logger'"
MsgNotFound == "Tool not found."
MsgToolRaised == "tool raised"

\* One entry of a result mapping or of the cache:
\* {"success": ..., "tool": ..., "result": ... | "error": ...}
ToolResult(ok, name, raw, err) ==
    [success |-> ok, tool |-> name, result |-> raw, error |-> err]
Absent == ToolResult(FALSE, "", "", "absent")
EmptyMap == [n \in ToolNames |-> Absent]
NoInvocations == [n \in ToolNames |-> 0]

\* The context handed to execute_tool_chain: a mapping from keys to values.
\* _execute_task hands over self.current_context.__dict__.
ProcessContextDict ==
    [user_request |-> "Build a small shed", project_context |-> "ctx",
     task_history |-> "[]", inferred_details |-> "{}",
     confidence_metrics |-> "{}"]
Contexts == {ProcessContextDict,
             [user_request |-> "Build a small shed", software |-> "blender"]}

\* what a tool was called with; NotCalled: Tool.execute was not called
NotCalled == [not_called |-> TRUE]
NothingPassed == [n \in ToolNames |-> NotCalled]
NoOwner == "none"
NoOwners == [n \in ToolNames |-> NoOwner]

-----------------------------------------------------------------------------
(* ToolRegistry *)

RegisteredNames(reg) == {reg[i].name : i \in 1..Len(reg)}

\* register_tool: the new registry, or the ValueError
register_tool_dup(reg, tool) ==
    [error |-> NoError,
     tools |-> IF tool.name \in RegisteredNames(reg)
               THEN [i \in 1..Len(reg) |->
                        IF reg[i].name = tool.name THEN tool ELSE reg[i]]
               ELSE Append(reg, tool)]
register_tool(reg, tool) ==
    IF tool.name \in RegisteredNames(reg)
    THEN [error |-> MsgDuplicate, tools |-> reg]
    ELSE [error |-> NoError, tools |-> Append(reg, tool)]

is_compatible(tool, task_type) == task_type \in tool.supported_tasks

get_tools_for_task(reg, task_type) ==
    SelectSeq(reg, LAMBDA t: is_compatible(t, task_type))

\* check_requirements: only the "software" kind is checked
check_requirements_strict(tool, sw) ==
    IF tool.requirements = {} THEN TRUE
    ELSE tool.requirements = {"software"} /\ sw
check_requirements(tool, sw) ==
    IF tool.requirements = {} THEN TRUE
    ELSE IF "software" \in tool.requirements /\ ~sw THEN FALSE
    ELSE TRUE

\* execute_tool: [error, invoked, passed, value]; oc is what Tool.execute
\* does, passed the keyword arguments it is called with
execute_tool_unchecked(reg, name, kwargs, sw, oc) ==
    IF name \notin RegisteredNames(reg)
    THEN [error |-> MsgNotFound, invoked |-> FALSE, passed |-> NotCalled,
          value |-> ""]
    ELSE IF oc = "raise"
    THEN [error |-> MsgToolRaised, invoked |-> TRUE, passed |-> kwargs,
          value |-> ""]
    ELSE [error |-> NoError, invoked |-> TRUE, passed |-> kwargs, value |-> oc]
execute_tool(reg, name, kwargs, sw, oc) ==
    IF name \notin RegisteredNames(reg)
    THEN [error |-> MsgNotFound, invoked |-> FALSE, passed |-> NotCalled,
          value |-> ""]
    ELSE LET tool == CHOOSE t \in {reg[i] : i \in 1..Len(reg)} : t.name = name
         IN  IF ~check_requirements(tool, sw)
             THEN [error |-> MsgReqNotMet, invoked |-> FALSE,
                   passed |-> NotCalled, value |-> ""]
             ELSE IF oc = "raise"
             THEN [error |-> MsgToolRaised, invoked |-> TRUE,
                   passed |-> kwargs, value |-> ""]
             ELSE [error |-> NoError, invoked |-> TRUE, passed |-> kwargs,
                   value |-> oc]

-----------------------------------------------------------------------------
(* ArchitectToolManager *)

\* __init__ sets registry, current_task_tools and tool_cache, and no logger
ManagerHasLogger == FALSE

\* "except Exception as e: self.logger.error(...); raise"
LogAndReraise(err) == IF ManagerHasLogger THEN err ELSE MsgNoLogger

\* _validate_tools
validate_tools(ts, sw) == \A i \in 1..Len(ts) : check_requirements(ts[i], sw)

\* prepare_tools_for_task: the error raised (NoError: it returned ready) and
\* the new current_task_tools
prepare_tools_for_task(task_type, reg, ctt, sw) ==
    LET ts == get_tools_for_task(reg, task_type)
    IN  IF ts = <<>>
        THEN [error |-> LogAndReraise(MsgNoCompatible), ctt |-> ctt, ready |-> FALSE]
        ELSE IF ~validate_tools(ts, sw)
        THEN [error |-> LogAndReraise(MsgReqNotMet), ctt |-> ctt, ready |-> FALSE]
        ELSE [error |-> NoError, ctt |-> [ctt EXCEPT ![task_type] = ts],
              ready |-> TRUE]

\* _prepare_tool_context: the entries of the context under the keys the tool
\* declares as requirements
prepare_tool_context_all(tool, context) == context
prepare_tool_context(tool, context) ==
    [k \in (tool.requirements \cap DOMAIN context) |-> context[k]]

\* _execute_tool_with_context: the result dict, whether Tool.execute ran and
\* the keyword arguments it was called with
execute_tool_with_context(tool, context, reg, sw, oc) ==
    LET kwargs == prepare_tool_context(tool, context)
        r == execute_tool(reg, tool.name, kwargs, sw, oc)
    IN  [res |-> IF r.error = NoError
                 THEN ToolResult(TRUE, tool.name, r.value, NoError)
                 ELSE ToolResult(FALSE, tool.name, "", r.error),
         invoked |-> r.invoked, passed |-> r.passed]

\* "if tool.name in self.tool_cache"
CacheHit_never(cache, name) == FALSE
CacheHit(cache, name) == cache[name] # Absent

\* "if result.get("success"): self.tool_cache[tool.name] = result"
StoreIfSuccessful_always(cache, name, res) == [cache EXCEPT ![name] = res]
StoreIfSuccessful_never(cache, name, res) == cache
StoreIfSuccessful(cache, name, res) ==
    IF res.success THEN [cache EXCEPT ![name] = res] ELSE cache

\* the Exception execute_tool_chain raises for a result without success
ToolFailedMsg(name, err) == "Tool " \o name \o " execution failed: " \o err

\* the loop of execute_tool_chain from the i-th prepared tool on.
\* acc: [results, cache, ninv, passed, error]; ocs: what each Tool.execute
\* would do
RECURSIVE ChainFrom(_, _, _, _, _, _, _)
ChainFrom(ts, i, acc, context, reg, sw, ocs) ==
    IF i > Len(ts) THEN acc
    ELSE LET name == ts[i].name IN
         IF CacheHit(acc.cache, name)
         THEN ChainFrom(ts, i + 1,
                        [acc EXCEPT !.results[name] = acc.cache[name]],
                        context, reg, sw, ocs)
         ELSE LET x == execute_tool_with_context(ts[i], context, reg, sw,
                                                 ocs[name])
                  ran == [acc EXCEPT
                            !.ninv[name] = @ + (IF x.invoked THEN 1 ELSE 0),
                            !.passed[name] = x.passed,
                            !.cache = StoreIfSuccessful(acc.cache, name, x.res)]
              IN  IF x.res.success
                  THEN ChainFrom(ts, i + 1,
                                 [ran EXCEPT !.results[name] = x.res],
                                 context, reg, sw, ocs)
                  ELSE [ran EXCEPT !.error =
                           LogAndReraise(ToolFailedMsg(name, x.res.error))]

\* execute_tool_chain: [results, cache, ninv, passed, error]
execute_tool_chain(task_type, context, ctt, cache, reg, sw, ocs) ==
    ChainFrom(ctt[task_type], 1,
              [results |-> EmptyMap, cache |-> cache, ninv |-> NoInvocations,
               passed |-> NothingPassed, error |-> NoError],
              context, reg, sw, ocs)

\* clear_cache(task_type) and clear_cache()
clear_cache_for_all(task_type, ctt, cache) == EmptyMap
clear_cache_for(task_type, ctt, cache) ==
    [n \in ToolNames |->
        IF \E i \in 1..Len(ctt[task_type]) : ctt[task_type][i].name = n
        THEN Absent ELSE cache[n]]
clear_cache_all == EmptyMap

-----------------------------------------------------------------------------
(* The dispatcher and registry API, called directly *)

NoOp == [op |-> "none", arg |-> "", error |-> NoError, value |-> ""]
NoChain == [st |-> "none", context |-> NotCalled, results |-> EmptyMap,
            ninv |-> NoInvocations]

\* What the Tool.execute of each tool would do if the chain over ts called
\* it; for a tool the chain cannot call (not in ts, or cached) one behaviour
\* stands for all.
ToolBehaviours(ts, cache) ==
    {ocs \in [ToolNames -> Outcomes] :
        \A n \in ToolNames :
            (CacheHit(cache, n) \/ \A i \in 1..Len(ts) : ts[i].name # n)
                => ocs[n] = "done"}

\* who wrote each cache entry, after a step that took the cache from old to
\* new while working for task_type
OwnerAfter(owner, old, new, task_type) ==
    [n \in ToolNames |->
        IF new[n] = Absent THEN NoOwner
        ELSE IF old[n] = Absent THEN task_type
        ELSE owner[n]]

RegisterTool(tool) ==
    LET r == register_tool(tools, tool)
    IN  /\ tools' = r.tools
        /\ lastOp' = [op |-> "register_tool", arg |-> tool.name,
                      error |-> r.error, value |-> ""]
        /\ UNCHANGED <<softwareOK, current_task_tools, tool_cache, invoked,
                       passed, cache_owner, lastChain>>

PrepareTools(task_type) ==
    LET r == prepare_tools_for_task(task_type, tools, current_task_tools, softwareOK)
    IN  /\ current_task_tools' = r.ctt
        /\ lastOp' = [op |-> "prepare_tools_for_task", arg |-> task_type,
                      error |-> r.error, value |-> ""]
        /\ lastChain' = IF r.error = NoError
                        THEN [lastChain EXCEPT ![task_type] = NoChain]
                        ELSE lastChain
        /\ UNCHANGED <<tools, softwareOK, tool_cache, invoked, passed,
                       cache_owner>>

ExecuteToolChain(task_type) ==
    \E ocs \in ToolBehaviours(current_task_tools[task_type], tool_cache),
       context \in Contexts :
        LET r == execute_tool_chain(task_type, context, current_task_tools,
                                    tool_cache, tools, softwareOK, ocs)
        IN  /\ tool_cache' = r.cache
            /\ invoked' = r.ninv
            /\ passed' = r.passed
            /\ cache_owner' = OwnerAfter(cache_owner, tool_cache, r.cache,
                                         task_type)
            /\ lastOp' = [op |-> "execute_tool_chain", arg |-> task_type,
                          error |-> r.error, value |-> ""]
            /\ lastChain' = [lastChain EXCEPT ![task_type] =
                               [st |-> IF r.error = NoError THEN "returned"
                                       ELSE "raised",
                                context |-> context, results |-> r.results, ninv |-> r.ninv]]
            /\ UNCHANGED <<tools, softwareOK, current_task_tools>>

\* ToolRegistry.execute_tool called directly, with keyword arguments kwargs
UnknownTool == "painter"
ExecuteTool(name) ==
    \E oc \in Outcomes, kwargs \in Contexts :
        LET r == execute_tool(tools, name, kwargs, softwareOK, oc)
        IN  /\ invoked' = [n \in ToolNames |->
                              IF n = name /\ r.invoked THEN 1 ELSE 0]
            /\ passed' = [n \in ToolNames |->
                             IF n = name THEN r.passed ELSE NotCalled]
            /\ lastOp' = [op |-> "execute_tool", arg |-> name,
                          error |-> r.error, value |-> r.value]
            /\ UNCHANGED <<tools, softwareOK, current_task_tools, tool_cache,
                           cache_owner, lastChain>>

\* whether a clear_cache call that took the cache from old to new removed
\* an entry (clear_cache itself returns nothing)
Evicted(old, new) == IF old # new THEN "evicted" ELSE ""

ClearCache(task_type) ==
    /\ tool_cache' = clear_cache_for(task_type, current_task_tools, tool_cache)
    /\ cache_owner' = OwnerAfter(cache_owner, tool_cache, tool_cache', task_type)
    /\ lastOp' = [op |-> "clear_cache", arg |-> task_type, error |-> NoError,
                  value |-> Evicted(tool_cache, tool_cache')]
    /\ lastChain' = [t \in TaskTypes |-> NoChain]
    /\ UNCHANGED <<tools, softwareOK, current_task_tools, invoked, passed>>

ClearCacheAll ==
    /\ tool_cache' = clear_cache_all
    /\ cache_owner' = NoOwners
    /\ lastOp' = [op |-> "clear_cache", arg |-> "", error |-> NoError,
                  value |-> Evicted(tool_cache, tool_cache')]
    /\ lastChain' = [t \in TaskTypes |-> NoChain]
    /\ UNCHANGED <<tools, softwareOK, current_task_tools, invoked, passed>>

\* the environment installs or removes the required program
SoftwareChange ==
    /\ softwareOK' = ~softwareOK
    /\ UNCHANGED <<tools, current_task_tools, tool_cache, invoked, passed,
                   cache_owner, lastChain>>

-----------------------------------------------------------------------------
(* DigitalArchitect: the analysis and the clarification gate *)

Missing == -1       \* a metric the analysis does not carry
Get(v, default) == IF v = Missing THEN default ELSE v

\* The analysis dict.  q: it has the key "clarification_question";
\* has_tasks: it has the key "required_tasks".
NoUnderstanding == [present |-> FALSE, q |-> FALSE, size |-> Missing,
                    importance |-> Missing, visibility |-> Missing,
                    context_fit |-> Missing, style_fit |-> Missing,
                    is_process |-> FALSE, has_tasks |-> FALSE,
                    required_tasks |-> <<>>]
\* "analysis = {}" after a JSONDecodeError
EmptyUnderstanding == [NoUnderstanding EXCEPT !.present = TRUE]

\* thresholds of _should_ask_user, in tenths
ImpactThreshold == 7
ContextFitThreshold == 4
StyleFitThreshold == 6
ImpactDefault == 0
ConfidenceDefault == 10

should_ask_user_defaults(u) ==
    \/ /\ Get(u.size, ImpactDefault) > ImpactThreshold
       /\ Get(u.importance, ImpactDefault) > ImpactThreshold
    \/ Get(u.context_fit, ImpactDefault) < ContextFitThreshold
    \/ /\ Get(u.visibility, ImpactDefault) > ImpactThreshold
       /\ Get(u.style_fit, ConfidenceDefault) < StyleFitThreshold
should_ask_user_flipped(u) ==
    \/ /\ Get(u.size, ImpactDefault) > ImpactThreshold
       /\ Get(u.importance, ImpactDefault) > ImpactThreshold
    \/ Get(u.context_fit, ConfidenceDefault) < ContextFitThreshold
    \/ /\ Get(u.visibility, ImpactDefault) > ImpactThreshold
       /\ Get(u.style_fit, ConfidenceDefault) > StyleFitThreshold
should_ask_user(u) ==
    \/ /\ Get(u.size, ImpactDefault) > ImpactThreshold
       /\ Get(u.importance, ImpactDefault) > ImpactThreshold
    \/ Get(u.context_fit, ConfidenceDefault) < ContextFitThreshold
    \/ /\ Get(u.visibility, ImpactDefault) > ImpactThreshold
       /\ Get(u.style_fit, ConfidenceDefault) < StyleFitThreshold

\* _analyze_request: "needs_clarification" is set iff the key is there
needs_clarification_always(u) == TRUE
needs_clarification(u) == u.q

\* What the language model may answer to the analysis prompt: the JSON text
\* of an object, text that is not JSON, the JSON text of something that is
\* not an object (a list, a number, null), or a value that is not text.
NoAnalysis == "none"
JsonObject(u) == [kind |-> "object", value |-> u]
NotJson == [kind |-> "not_json", value |-> NoUnderstanding]
JsonNonObject == [kind |-> "non_object", value |-> NoUnderstanding]
NotText == [kind |-> "not_text", value |-> NoUnderstanding]
AnalysisResponses(domain) ==
    {JsonObject(u) : u \in domain \cup {EmptyUnderstanding}}
        \cup {NotJson, JsonNonObject, NotText}

MsgJsonTypeError == "the JSON object must be str, bytes or bytearray"
MsgNotADict == "'list' object has no attribute 'get'"

\* json.loads: [error, decode_error, value]; only a JSONDecodeError is caught
json_loads(out) ==
    IF out.kind = "not_text"
    THEN [error |-> MsgJsonTypeError, decode_error |-> FALSE, is_dict |-> FALSE,
          value |-> NoUnderstanding]
    ELSE IF out.kind = "not_json"
    THEN [error |-> "JSONDecodeError", decode_error |-> TRUE, is_dict |-> FALSE,
          value |-> NoUnderstanding]
    ELSE [error |-> NoError, decode_error |-> FALSE,
          is_dict |-> out.kind = "object", value |-> out.value]

\* _analyze_request after the language model answered: [error, understanding]
analyze_request(out) ==
    LET j == json_loads(out)
    IN  IF j.decode_error
        THEN [error |-> NoError, understanding |-> EmptyUnderstanding]
        ELSE IF j.error # NoError
        THEN [error |-> j.error, understanding |-> NoUnderstanding]
        ELSE IF ~j.is_dict
        THEN [error |-> MsgNotADict, understanding |-> NoUnderstanding]
        ELSE [error |-> NoError, understanding |-> j.value]

\* handle_request: "if understanding.get("needs_clarification") and
\* self._should_ask_user(understanding)"
ClarificationGate(u) == needs_clarification(u) /\ should_ask_user(u)

-----------------------------------------------------------------------------
(* Responses, TaskResults, memory records *)

Request == ProcessContextDict.user_request
ProjectContext == ProcessContextDict.project_context
Question == "Which site?"

NoResponse == [none |-> TRUE]
Has(r, k) == k \in DOMAIN r
Truthy(r, k) == Has(r, k) /\ r[k] = TRUE

format_clarification_request_bare(question) ==
    [needs_clarification |-> TRUE, message |-> question]
format_clarification_request(question) ==
    [needs_clarification |-> TRUE, message |-> question,
     context |-> ProjectContext]
Processing_asking ==
    [needs_clarification |-> TRUE, message |-> Question,
     context |-> ProjectContext]
Processing == [status |-> "processing"]
ErrorResponse(msg) == [error |-> msg]
NotConnected == [status |-> "error", message |-> "Unity connection not available"]

MsgLLM == "language model call failed"
MsgMemory == "memory write failed"
MsgNoHandleTask == "'DigitalArchitect' object has no attribute '_handle_task'"
MsgNoFormatCompletion ==
    "'DigitalArchitect' object has no attribute '_format_completion_response'"
MsgNoFormatUser ==
    "'DigitalArchitect' object has no attribute '_format_user_request'"
MsgNoGet == "'TaskResult' object has no attribute 'get'"
MsgKeyError == "'required_tasks'"
MsgNoReflectionPrompt == "name 'REFLECTION_PROMPT' is not defined"

Parameters(task_type) ==
    IF task_type = "place_structure" THEN "shape=shed" ELSE "none"
Task(task_type) == [type |-> task_type, parameters |-> Parameters(task_type)]

\* the dataclass TaskResult; it has no method get
TaskResult(ok, msg, art, err) ==
    [success |-> ok, message |-> msg, artifacts |-> art, error |-> err]
TaskResultHasGet == FALSE
EmptyArtifacts == <<>>

\* _process_tool_results: the raw results of the successful tools
process_tool_results(res) ==
    [n \in {m \in ToolNames : res[m].success} |-> res[n].result]

ConversationMemory_untagged(role, tag, message) ==
    [kind |-> "conversation", role |-> role, importance |-> 80,
     tags |-> {"conversation"}, message |-> message]
ConversationMemory(role, tag, message) ==
    [kind |-> "conversation", role |-> role, importance |-> 80,
     tags |-> {"conversation", tag}, message |-> message]
ActionMemory_optimistic(task, result) ==
    [kind |-> "action", importance |-> 90, tags |-> {"action", task.type},
     action_type |-> task.type, parameters |-> task.parameters,
     result |-> result.artifacts, success |-> TRUE]
ActionMemory(task, result) ==
    [kind |-> "action", importance |-> 90, tags |-> {"action", task.type},
     action_type |-> task.type, parameters |-> task.parameters,
     result |-> result.artifacts, success |-> result.success]
KnowledgeMemory_prominent(task, result) ==
    [kind |-> "knowledge", importance |-> 90,
     tags |-> {"knowledge", task.type}, category |-> task.type,
     content |-> result.artifacts["learned_info"]]
KnowledgeMemory(task, result) ==
    [kind |-> "knowledge", importance |-> 85,
     tags |-> {"knowledge", task.type}, category |-> task.type,
     content |-> result.artifacts["learned_info"]]

\* MemoryManager.add_memory: the record goes to the end of the log, whether
\* or not the log holds an equal record
add_memory_unique(log, record) ==
    IF \E i \in 1..Len(log) : log[i] = record THEN log ELSE Append(log, record)
add_memory(log, record) == Append(log, record)

-----------------------------------------------------------------------------
(* DigitalArchitect._execute_task *)

\* agents/core _execute_task, handed self.current_context.__dict__ as
\* context: [result, ctt, cache, ninv, passed]
context_execute_task(context, task, reg, ctt, cache, sw, ocs) ==
    LET p == prepare_tools_for_task(task.type, reg, ctt, sw)
        c == execute_tool_chain(task.type, context, p.ctt, cache,
                                reg, sw, ocs)
    IN  IF p.error # NoError
        THEN [result |-> TaskResult(FALSE, "Task failed", EmptyArtifacts, p.error),
              ctt |-> p.ctt, cache |-> cache, ninv |-> NoInvocations,
              passed |-> NothingPassed]
        ELSE IF ~p.ready
        THEN [result |-> TaskResult(FALSE, "Failed to prepare tools",
                                    EmptyArtifacts, "Tool preparation failed"),
              ctt |-> p.ctt, cache |-> cache, ninv |-> NoInvocations,
              passed |-> NothingPassed]
        ELSE IF c.error # NoError
        THEN [result |-> TaskResult(FALSE, "Task failed", EmptyArtifacts, c.error),
              ctt |-> p.ctt, cache |-> c.cache, ninv |-> c.ninv,
              passed |-> c.passed]
        ELSE [result |-> TaskResult(TRUE, "Task completed successfully",
                            [tool_results |-> c.results,
                             task_output |-> process_tool_results(c.results)],
                            NoError),
              ctt |-> p.ctt, cache |-> c.cache, ninv |-> c.ninv,
              passed |-> c.passed]

\* agents/core: prepare the tools, run the chain, wrap the outcome.
\* [result, ctt, cache, ninv, passed]
base_execute_task_uncaught(task, reg, ctt, cache, sw, ocs) ==
    LET p == prepare_tools_for_task(task.type, reg, ctt, sw)
        c == execute_tool_chain(task.type, ProcessContextDict, p.ctt, cache,
                                reg, sw, ocs)
    IN  [result |-> TaskResult(TRUE, "Task completed successfully",
                       [tool_results |-> c.results,
                        task_output |-> process_tool_results(c.results)],
                       NoError),
         ctt |-> p.ctt, cache |-> c.cache, ninv |-> c.ninv,
         passed |-> c.passed]
\* the same for sequential calls, which all carry ProcessContextDict
base_execute_task(task, reg, ctt, cache, sw, ocs) ==
    context_execute_task(ProcessContextDict, task, reg, ctt, cache, sw, ocs)

\* self.architect_id is read at line 235 and assigned nowhere
HasArchitectId == FALSE
ArchitectId == "architect-1"
MsgNoArchitectId == "'DigitalArchitect' object has no attribute 'architect_id'"

\* CollectiveMemory.add_collective_knowledge: one more entry of the
\* project's log
CollectiveEntry(category, content, contributor_id) ==
    [category |-> category, content |-> content,
     contributor_id |-> contributor_id]

\* result.artifacts.get("project_relevant", False)
ProjectRelevant(artifacts) ==
    "project_relevant" \in DOMAIN artifacts /\ artifacts["project_relevant"]

\* digitalarchitects/core _execute_task around the TaskResult base that
\* super()._execute_task returned: [result, log, collective].  ok tells
\* which of the three writes the stores accept; the first exception ends
\* the method in its except clause, with what was written before.
TaskFailed(err) == TaskResult(FALSE, "Task failed", EmptyArtifacts, err)
tracked_execute_task(task, base, log, ok) ==
    LET withAction == add_memory(log, ActionMemory(task, base))
        withKnowledge == add_memory(withAction, KnowledgeMemory(task, base))
    IN  IF ~ok.action
        THEN [result |-> TaskFailed(MsgMemory), log |-> log, collective |-> <<>>]
        ELSE IF ~(base.success /\ "learned_info" \in DOMAIN base.artifacts)
        THEN [result |-> base, log |-> withAction, collective |-> <<>>]
        ELSE IF ~ok.knowledge
        THEN [result |-> TaskFailed(MsgMemory), log |-> withAction,
              collective |-> <<>>]
        ELSE IF ~ProjectRelevant(base.artifacts)
        THEN [result |-> base, log |-> withKnowledge, collective |-> <<>>]
        ELSE IF ~HasArchitectId
        THEN [result |-> TaskFailed(MsgNoArchitectId), log |-> withKnowledge,
              collective |-> <<>>]
        ELSE IF ~ok.collective
        THEN [result |-> TaskFailed(MsgMemory), log |-> withKnowledge,
              collective |-> <<>>]
        ELSE [result |-> base, log |-> withKnowledge,
              collective |-> <<CollectiveEntry(task.type,
                                   base.artifacts["learned_info"], ArchitectId)>>]

\* the same, when the stores accept every write or none: [result, log]
memory_execute_task(task, base, log, memOK) ==
    LET r == tracked_execute_task(task, base, log,
                 [action |-> memOK, knowledge |-> memOK, collective |-> memOK])
    IN  [result |-> r.result, log |-> r.log]

\* a TaskResult whose tool output asks for user input
SignalsUserInput(result) ==
    /\ "tool_results" \in DOMAIN result.artifacts
    /\ \E n \in ToolNames : result.artifacts.tool_results[n].result = "needs_input"

\* "except Exception as e: return {"error": str(e)}" of the inner
\* handle_request and of the memory layer's handle_request
HandleRequestCatches(msg) == TRUE
MemoryLayerCatches_none(msg) == FALSE
MemoryLayerCatches(msg) == TRUE

-----------------------------------------------------------------------------
(* One handle_request call, step by step *)

\* the inner handle_request ends with result r (or with the exception msg)
BaseReturns(r) ==
    /\ baseResult' = r
    /\ pc' = "respond"
BaseRaises(msg) ==
    IF HandleRequestCatches(msg)
    THEN BaseReturns(ErrorResponse(msg)) /\ UNCHANGED <<escaped, response>>
    ELSE /\ pc' = "returned"
         /\ escaped' = ~MemoryLayerCatches(msg)
         /\ response' = IF MemoryLayerCatches(msg) THEN ErrorResponse(msg)
                        ELSE response
         /\ UNCHANGED baseResult

\* handle_request, after _execute_request returned pr: _format_user_request
\* and _format_completion_response are defined nowhere
BaseFormats(pr) ==
    IF Truthy(pr, "needs_user_input") THEN BaseRaises(MsgNoFormatUser)
    ELSE IF Truthy(pr, "is_complete") THEN BaseRaises(MsgNoFormatCompletion)
    ELSE BaseReturns(Processing) /\ UNCHANGED <<escaped, response>>

\* memory layer: the user's message is recorded, then super().handle_request
Receive(maxCalls) ==
    /\ pc \in {"idle", "returned"}
    /\ calls < maxCalls
    /\ ~escaped
    /\ calls' = calls + 1
    /\ analysis_response' = NoAnalysis
    /\ understanding' = NoUnderstanding
    /\ results' = <<>>
    /\ started' = <<>>
    /\ procResult' = NoResponse
    /\ baseResult' = NoResponse
    /\ \E memOK \in BOOLEAN :
          IF memOK
          THEN /\ memory_log' = add_memory(memory_log,
                                   ConversationMemory("user", "user_input", Request))
               /\ pc' = "base"
               /\ response' = NoResponse
               /\ UNCHANGED escaped
          ELSE /\ response' = IF MemoryLayerCatches(MsgMemory)
                              THEN ErrorResponse(MsgMemory) ELSE NoResponse
               /\ escaped' = ~MemoryLayerCatches(MsgMemory)
               /\ pc' = "returned"
               /\ UNCHANGED memory_log
    /\ UNCHANGED connected
    /\ UNCHANGED toolVars
    /\ UNCHANGED <<current_context, flight>>

\* agents/core handle_request up to the await of the language model
BaseEnter_skip ==
    /\ pc = "base"
    /\ IF ~connected
       THEN BaseReturns(NotConnected)
       ELSE pc' = "execute" /\ UNCHANGED baseResult
    /\ UNCHANGED <<connected, analysis_response, understanding, results, started,
                   procResult, response, escaped, memory_log, calls>>
    /\ UNCHANGED toolVars
    /\ UNCHANGED <<current_context, flight>>
BaseEnter ==
    /\ pc = "base"
    /\ IF ~connected
       THEN BaseReturns(NotConnected)
       ELSE pc' = "analyzing" /\ UNCHANGED baseResult
    /\ UNCHANGED <<connected, analysis_response, understanding, results, started,
                   procResult, response, escaped, memory_log, calls>>
    /\ UNCHANGED toolVars
    /\ UNCHANGED <<current_context, flight>>

\* the language model answers: _analyze_request, then the gate
Analyze(domain) ==
    /\ pc = "analyzing"
    /\ \/ /\ BaseRaises(MsgLLM)
          /\ UNCHANGED <<analysis_response, understanding>>
       \/ \E out \in AnalysisResponses(domain) :
             LET a == analyze_request(out)
             IN  /\ analysis_response' = out.kind
                 /\ IF a.error # NoError
                    THEN BaseRaises(a.error) /\ UNCHANGED understanding
                    ELSE /\ understanding' = a.understanding
                         /\ IF ClarificationGate(a.understanding)
                            THEN BaseReturns(format_clarification_request(Question))
                            ELSE pc' = "execute" /\ UNCHANGED baseResult
                         /\ UNCHANGED <<escaped, response>>
    /\ UNCHANGED <<connected, results, started, procResult, memory_log, calls>>
    /\ UNCHANGED toolVars
    /\ UNCHANGED <<current_context, flight>>

\* _execute_request, and _handle_process up to its loop
Execute ==
    /\ pc = "execute"
    /\ IF ~understanding.is_process
       THEN BaseRaises(MsgNoHandleTask) /\ UNCHANGED procResult
       ELSE IF ~understanding.has_tasks
       THEN /\ procResult' = ErrorResponse(MsgKeyError)
            /\ BaseFormats(ErrorResponse(MsgKeyError))
       ELSE /\ pc' = IF understanding.required_tasks = <<>>
                     THEN "completion" ELSE "task"
            /\ UNCHANGED <<procResult, baseResult, escaped, response>>
    /\ UNCHANGED <<connected, analysis_response, understanding, results, started,
                   memory_log, calls>>
    /\ UNCHANGED toolVars
    /\ UNCHANGED <<current_context, flight>>

\* "for task in tasks": the position of the task of the next turn, when
\* done holds the results of the turns before
NextTask_last(tasks, done) == Len(tasks)
NextTask(tasks, done) == Len(done) + 1

\* one turn of the loop of _handle_process
ExecuteTask ==
    /\ pc = "task"
    /\ \E ocs \in ToolBehaviours(
                       get_tools_for_task(tools,
                           understanding.required_tasks[
                               NextTask(understanding.required_tasks, results)]),
                       tool_cache),
          memOK \in BOOLEAN :
          LET i == NextTask(understanding.required_tasks, results)
              task == Task(understanding.required_tasks[i])
              b == base_execute_task(task, tools, current_task_tools,
                                     tool_cache, softwareOK, ocs)
              m == memory_execute_task(task, b.result, memory_log, memOK)
              collected == Append(results, m.result)
          IN  /\ current_task_tools' = b.ctt
              /\ tool_cache' = b.cache
              /\ invoked' = b.ninv
              /\ passed' = b.passed
              /\ cache_owner' = OwnerAfter(cache_owner, tool_cache, b.cache,
                                           task.type)
              /\ memory_log' = m.log
              /\ results' = collected
              /\ started' = Append(started, i)
              /\ IF ~TaskResultHasGet
                 THEN /\ procResult' = ErrorResponse(MsgNoGet)
                      /\ BaseFormats(ErrorResponse(MsgNoGet))
                 ELSE IF SignalsUserInput(m.result)
                 THEN /\ procResult' = [needs_user_input |-> TRUE,
                                        result |-> m.result]
                      /\ BaseFormats([needs_user_input |-> TRUE,
                                      result |-> m.result])
                 ELSE /\ pc' = IF Len(collected) = Len(understanding.required_tasks)
                               THEN "completion" ELSE "task"
                      /\ UNCHANGED <<procResult, baseResult, escaped, response>>
    /\ UNCHANGED <<tools, softwareOK, lastOp, lastChain>>
    /\ UNCHANGED <<connected, analysis_response, understanding, calls>>
    /\ UNCHANGED <<current_context, flight>>

\* _generate_completion_message: the first language-model call
Completion ==
    /\ pc = "completion"
    /\ \E llmOK \in BOOLEAN :
          IF llmOK
          THEN /\ pc' = "reflect"
               /\ UNCHANGED <<procResult, baseResult, escaped, response>>
          ELSE /\ procResult' = ErrorResponse(MsgLLM)
               /\ BaseFormats(ErrorResponse(MsgLLM))
    /\ UNCHANGED <<connected, analysis_response, understanding, results, started,
                   memory_log, calls>>
    /\ UNCHANGED toolVars
    /\ UNCHANGED <<current_context, flight>>

\* _reflect_on_tasks and the return of _handle_process.  REFLECTION_PROMPT is
\* imported by digitalarchitects/core and not by agents/core.
Reflect ==
    /\ pc = "reflect"
    /\ \E imported \in BOOLEAN, llmOK \in BOOLEAN :
          LET done == [is_complete |-> TRUE, results |-> results,
                       message |-> "completion message",
                       reflection |-> "reflection"]
              err == IF ~imported THEN MsgNoReflectionPrompt ELSE MsgLLM
              out == IF imported /\ llmOK THEN done ELSE ErrorResponse(err)
          IN  /\ procResult' = out
              /\ BaseFormats(out)
    /\ UNCHANGED <<connected, analysis_response, understanding, results, started,
                   memory_log, calls>>
    /\ UNCHANGED toolVars
    /\ UNCHANGED <<current_context, flight>>

\* memory layer: the reply is recorded unless its status is "error"
Respond ==
    /\ pc = "respond"
    /\ pc' = "returned"
    /\ IF Has(baseResult, "status") /\ baseResult.status = "error"
       THEN response' = baseResult /\ UNCHANGED <<memory_log, escaped>>
       ELSE \E memOK \in BOOLEAN :
               IF memOK
               THEN /\ memory_log' = add_memory(memory_log,
                         ConversationMemory("assistant", "agent_response",
                             IF Has(baseResult, "message")
                             THEN baseResult.message ELSE ""))
                    /\ response' = baseResult
                    /\ UNCHANGED escaped
               ELSE /\ response' = IF MemoryLayerCatches(MsgMemory)
                                   THEN ErrorResponse(MsgMemory) ELSE NoResponse
                    /\ escaped' = ~MemoryLayerCatches(MsgMemory)
                    /\ UNCHANGED memory_log
    /\ UNCHANGED <<connected, analysis_response, understanding, results, started,
                   procResult, baseResult, calls>>
    /\ UNCHANGED toolVars
    /\ UNCHANGED <<current_context, flight>>

\* the environment connection comes and goes
ConnectionChange ==
    /\ connected' = ~connected
    /\ UNCHANGED <<pc, analysis_response, understanding, results, started, procResult,
                   baseResult, response, escaped, memory_log, calls>>
    /\ UNCHANGED toolVars
    /\ UNCHANGED <<current_context, flight>>

-----------------------------------------------------------------------------
(* TaskPlanner and the MessageHandler it calls *)

\* What the language model proposes as a plan: a JSON value.  An element is
\* a mapping with some of the keys "type" and "parameters", or no mapping.
PlanTask(task_type) ==
    [is_dict |-> TRUE, keys |-> {"type", "parameters"}, type |-> task_type,
     parameters_is_dict |-> TRUE]
PlanElements ==
    {PlanTask(t) : t \in TaskTypes} \cup
    {[is_dict |-> TRUE, keys |-> {"type"}, type |-> "analyze_site",
      parameters_is_dict |-> FALSE],
     [is_dict |-> TRUE, keys |-> {"parameters"}, type |-> "",
      parameters_is_dict |-> TRUE],
     [is_dict |-> TRUE, keys |-> {"type", "parameters"},
      type |-> "place_structure", parameters_is_dict |-> FALSE],
     [is_dict |-> FALSE, keys |-> {}, type |-> "", parameters_is_dict |-> FALSE]}
NotASequence == [is_list |-> FALSE, items |-> <<>>]
PlanList(items) == [is_list |-> TRUE, items |-> items]
SeqsUpTo(S, n) == UNION {[1..k -> S] : k \in 0..n}
Proposals ==
    {NotASequence} \cup {PlanList(items) : items \in SeqsUpTo(PlanElements, MaxPlanLen)}

MsgBadKeyword == "__init__() got an unexpected keyword argument 'building_type'"

\* ArchitectRequest has the fields analysis, building_info, is_valid and
\* error_message; process_message builds it with building_type=,
\* requirements= and context=, on its normal path and in its except block
ArchitectRequestAccepts == FALSE
\* a dataclass instance has no method get
ArchitectRequestHasGet == FALSE

\* MessageHandler.process_message: it raises, or returns an ArchitectRequest
\* that carries the proposal
process_message(proposal) ==
    IF ArchitectRequestAccepts
    THEN [error |-> NoError, analysis |-> proposal]
    ELSE [error |-> MsgBadKeyword, analysis |-> NotASequence]

\* lines 34-41: the list itself if it is a list of dicts that all have the
\* keys 'type' and 'parameters', else the ValueError
validate_plan(planned) ==
    IF /\ planned.is_list
       /\ \A i \in 1..Len(planned.items) : planned.items[i].is_dict
    THEN IF \A i \in 1..Len(planned.items) :
                {"type", "parameters"} \subseteq planned.items[i].keys
         THEN [error |-> NoError, tasks |-> planned.items]
         ELSE [error |-> "Each task must have 'type' and 'parameters'.",
               tasks |-> <<>>]
    ELSE [error |-> "Invalid task format received from LLM.", tasks |-> <<>>]

\* plan_tasks: [error, tasks]; error is the exception that leaves the call.
\* The call of process_message stands before the try statement.
plan_tasks(proposal) ==
    LET answer == process_message(proposal)
    IN  IF answer.error # NoError
        THEN [error |-> answer.error, tasks |-> <<>>]
        ELSE IF ~ArchitectRequestHasGet
        THEN [error |-> NoError, tasks |-> <<>>]
        ELSE [error |-> NoError, tasks |-> validate_plan(answer.analysis).tasks]

-----------------------------------------------------------------------------
(* Concurrent handle_request calls on one orchestrator *)

\* Two calls are in flight on the same DigitalArchitect; each has its own
\* message and project context.  A call gives up control where it awaits
\* the language model or the memory manager; what lies between two such
\* awaits runs in one piece (prepare_tools_for_task and execute_tool_chain
\* await coroutines that never wait themselves).
Calls == {"A", "B"}
Message(c) == IF c = "A" THEN "Build a small shed" ELSE "Pave the yard"
ProjectContextOf(c) == IF c = "A" THEN "ctx" ELSE "ctx of B"

\* self.current_context = None, and ProcessContext(user_request=...,
\* project_context=..., task_history=[], inferred_details={},
\* confidence_metrics={})
NoContext == [none |-> TRUE]
ProcessContext(user_request, project_context) ==
    [user_request |-> user_request, project_context |-> project_context,
     task_history |-> "[]", inferred_details |-> "{}",
     confidence_metrics |-> "{}"]

\* ANALYSIS_PROMPT.format(user_request=..., project_context=...)
NoPrompt == [none |-> TRUE]
AnalysisPrompt(context) ==
    [user_request |-> context.user_request,
     project_context |-> context.project_context]

\* the "inferred_details" and "confidence_metrics" of the analysis the
\* language model gives for a prompt
InferredDetails(prompt) == "details of " \o prompt.user_request
ConfidenceMetrics(prompt) == "confidence in " \o prompt.user_request

\* _analyze_request, lines 85-86: the analysis is written into whatever
\* self.current_context is when the language model has answered
update_context(context, prompt) ==
    [context EXCEPT !.inferred_details = InferredDetails(prompt),
                    !.confidence_metrics = ConfidenceMetrics(prompt)]

\* _format_clarification_request, reading self.current_context
format_clarification_request_in(context, question) ==
    [needs_clarification |-> TRUE, message |-> question,
     context |-> context.project_context]

\* memory layer, lines 93-105: the records written for the reply of the
\* inner handle_request
ReplyRecords(reply) ==
    IF Has(reply, "status") /\ reply.status = "error" THEN <<>>
    ELSE <<ConversationMemory("assistant", "agent_response",
               IF Has(reply, "message") THEN reply.message ELSE "")>>

RECURSIVE AddAll(_, _)
AddAll(log, records) ==
    IF records = <<>> THEN log
    ELSE AddAll(add_memory(log, Head(records)), Tail(records))

NotStarted ==
    [pc |-> "idle", prompt |-> NoPrompt, understanding |-> NoUnderstanding,
     context |-> NotCalled, passed |-> NothingPassed,
     invoked |-> NoInvocations, result |-> NoResponse, reply |-> NoResponse,
     response |-> NoResponse]
NoFlights == [c \in Calls |-> NotStarted]

sequentialVars == <<pc, analysis_response, understanding, results, started,
                    procResult, baseResult, response, escaped, calls>>

\* the add_memory calls of one step, in order
Writes(c, records) ==
    /\ memory_log' = AddAll(memory_log, records)
    /\ lastOp' = [op |-> "add_memory", arg |-> c, error |-> NoError,
                  value |-> records]

\* the inner handle_request of call c returned reply: the memory layer
\* records it and awaits the memory manager, or returns at once
Replies(c, f, reply, records) ==
    /\ Writes(c, records \o ReplyRecords(reply))
    /\ flight' = [flight EXCEPT ![c] =
                     IF ReplyRecords(reply) = <<>>
                     THEN [f EXCEPT !.pc = "returned", !.reply = reply,
                                    !.response = reply]
                     ELSE [f EXCEPT !.pc = "replying", !.reply = reply]]

\* memory layer, lines 79-89: the user's message is recorded
CallStart(c) ==
    /\ flight[c].pc = "idle"
    /\ Writes(c, <<ConversationMemory("user", "user_input", Message(c))>>)
    /\ flight' = [flight EXCEPT ![c].pc = "base"]
    /\ UNCHANGED <<tools, softwareOK, current_task_tools, tool_cache, invoked,
                   passed, cache_owner, lastChain, connected, current_context>>
    /\ UNCHANGED sequentialVars

\* agents/core handle_request, lines 31-45 and 71-76: the connection check,
\* the new ProcessContext, the prompt, the call of the language model
CallEnter(c) ==
    /\ flight[c].pc = "base"
    /\ IF ~connected
       THEN /\ Replies(c, flight[c], NotConnected, <<>>)
            /\ UNCHANGED current_context
       ELSE LET context == ProcessContext(Message(c), ProjectContextOf(c))
            IN  /\ current_context' = context
                /\ flight' = [flight EXCEPT ![c].pc = "analyzing",
                                            ![c].prompt = AnalysisPrompt(context)]
                /\ Writes(c, <<>>)
    /\ UNCHANGED <<tools, softwareOK, current_task_tools, tool_cache, invoked,
                   passed, cache_owner, lastChain, connected>>
    /\ UNCHANGED sequentialVars

\* the language model answered call c: the rest of _analyze_request, the
\* gate, and the first turn of the loop of _handle_process up to the await
\* of the memory manager in the memory layer's _execute_task
CallAnalyzed(c, domain) ==
    /\ flight[c].pc = "analyzing"
    /\ \/ /\ Replies(c, flight[c], ErrorResponse(MsgLLM), <<>>)
          /\ UNCHANGED <<current_context, current_task_tools, tool_cache,
                         invoked, passed, cache_owner>>
       \/ \E u \in domain :
             LET a == analyze_request(JsonObject(u))
                 context == update_context(current_context, flight[c].prompt)
                 f == [flight[c] EXCEPT !.understanding = a.understanding]
             IN  /\ current_context' = context
                 /\ IF ClarificationGate(a.understanding)
                    THEN /\ Replies(c, f,
                                format_clarification_request_in(context, Question),
                                <<>>)
                         /\ UNCHANGED <<current_task_tools, tool_cache,
                                        invoked, passed, cache_owner>>
                    ELSE \E ocs \in ToolBehaviours(
                                get_tools_for_task(tools, u.required_tasks[1]),
                                tool_cache) :
                            LET task == Task(u.required_tasks[1])
                                b == context_execute_task(context, task, tools,
                                         current_task_tools, tool_cache,
                                         softwareOK, ocs)
                            IN  /\ current_task_tools' = b.ctt
                                /\ tool_cache' = b.cache
                                /\ invoked' = b.ninv
                                /\ passed' = b.passed
                                /\ cache_owner' = OwnerAfter(cache_owner,
                                       tool_cache, b.cache, task.type)
                                /\ Writes(c, <<ActionMemory(task, b.result)>>)
                                /\ flight' = [flight EXCEPT ![c] =
                                      [f EXCEPT !.pc = "task",
                                                !.context = context,
                                                !.passed = b.passed,
                                                !.invoked = b.ninv,
                                                !.result = b.result]]
    /\ UNCHANGED <<tools, softwareOK, lastChain, connected>>
    /\ UNCHANGED sequentialVars

\* the ActionMemory is written: result.get raises in _handle_process
\* (TaskResult has no get), _handle_process returns {"error": ...} and
\* handle_request answers {"status": "processing"}
CallTaskDone(c) ==
    /\ flight[c].pc = "task"
    /\ ~TaskResultHasGet
    /\ Replies(c, flight[c], Processing, <<>>)
    /\ UNCHANGED <<tools, softwareOK, current_task_tools, tool_cache, invoked,
                   passed, cache_owner, lastChain, connected, current_context>>
    /\ UNCHANGED sequentialVars

\* the reply is recorded: the memory layer returns it
CallReturn(c) ==
    /\ flight[c].pc = "replying"
    /\ flight' = [flight EXCEPT ![c].pc = "returned",
                                ![c].response = flight[c].reply]
    /\ Writes(c, <<>>)
    /\ UNCHANGED <<tools, softwareOK, current_task_tools, tool_cache, invoked,
                   passed, cache_owner, lastChain, connected, current_context>>
    /\ UNCHANGED sequentialVars

-----------------------------------------------------------------------------
(* MemoryManager.query_memories *)

\* the tags argument: None, or a set of tags
NoTags == [given |-> FALSE, tags |-> {}]
Tags(S) == [given |-> TRUE, tags |-> S]

\* a record the query may return: important enough, and sharing a tag with
\* the requested ones when tags are given
Matches(record, tags, importance_threshold) ==
    /\ record.importance >= importance_threshold
    /\ ~tags.given \/ record.tags \cap tags.tags # {}

\* how relevant a record is: its importance
Relevance(record) == record.importance

\* the record at position p of the log is returned before the one at q:
\* the more relevant first, the more recent first among equally relevant
RanksBefore(log, p, q) ==
    \/ Relevance(log[p]) > Relevance(log[q])
    \/ Relevance(log[p]) = Relevance(log[q]) /\ p > q

RECURSIVE Ranked(_, _)
Ranked(log, positions) ==
    IF positions = {} THEN <<>>
    ELSE LET first == CHOOSE p \in positions :
                          \A q \in positions \ {p} : RanksBefore(log, p, q)
         IN  <<first>> \o Ranked(log, positions \ {first})

\* the positions in the log of the records query_memories returns
query_positions(log, tags, importance_threshold, limit) ==
    LET ranked == Ranked(log, {p \in 1..Len(log) :
                             Matches(log[p], tags, importance_threshold)})
    IN  SubSeq(ranked, 1, IF Len(ranked) < limit THEN Len(ranked) ELSE limit)

\* query_memories(tags, importance_threshold, limit): the records
query_memories_unfiltered(log, tags, importance_threshold, limit) ==
    LET positions == query_positions(log, tags, 0, limit)
    IN  [i \in 1..Len(positions) |-> log[positions[i]]]
query_memories(log, tags, importance_threshold, limit) ==
    LET positions == query_positions(log, tags, importance_threshold, limit)
    IN  [i \in 1..Len(positions) |-> log[positions[i]]]

QueryMemories(tags, importance_threshold, limit) ==
    /\ lastOp' = [op |-> "query_memories",
                  arg |-> [tags |-> tags,
                           importance_threshold |-> importance_threshold,
                           limit |-> limit],
                  error |-> NoError,
                  value |-> [records |-> query_memories(memory_log, tags,
                                             importance_threshold, limit),
                             positions |-> query_positions(memory_log, tags,
                                               importance_threshold, limit)]]
    /\ UNCHANGED <<tools, softwareOK, current_task_tools, tool_cache, invoked,
                   passed, cache_owner, lastChain, connected, memory_log,
                   current_context, flight>>
    /\ UNCHANGED sequentialVars

\* DigitalArchitect.query_relevant_memories(query, tags): the query text is
\* not passed on
RelevantThreshold == 50
RelevantLimit == 10
QueryRelevantMemories(tags) ==
    QueryMemories(tags, RelevantThreshold, RelevantLimit)

\* the memory layer's handle_request around an inner call that returned
\* reply: the user's message is recorded, then the reply unless its status
\* is "error"
Conversation(reply) ==
    LET records == <<ConversationMemory("user", "user_input", Request)>>
                       \o ReplyRecords(reply)
    IN  /\ Len(memory_log) < MaxLog
        /\ memory_log' = AddAll(memory_log, records)
        /\ lastOp' = [op |-> "handle_request", arg |-> reply,
                      error |-> NoError, value |-> [appended |-> records]]
        /\ UNCHANGED <<tools, softwareOK, current_task_tools, tool_cache,
                       invoked, passed, cache_owner, lastChain, connected,
                       current_context, flight>>
        /\ UNCHANGED sequentialVars

-----------------------------------------------------------------------------
(* Specifications *)

CallIdle ==
    /\ pc = "idle"
    /\ analysis_response = NoAnalysis
    /\ understanding = NoUnderstanding
    /\ results = <<>>
    /\ started = <<>>
    /\ procResult = NoResponse
    /\ baseResult = NoResponse
    /\ response = NoResponse
    /\ escaped = FALSE
    /\ memory_log = <<>>
    /\ calls = 0
    /\ current_context = NoContext
    /\ flight = NoFlights

ToolInit(reg) ==
    /\ tools = reg
    /\ softwareOK \in BOOLEAN
    /\ current_task_tools = [t \in TaskTypes |-> <<>>]
    /\ tool_cache = EmptyMap
    /\ invoked = NoInvocations
    /\ passed = NothingPassed
    /\ cache_owner = NoOwners
    /\ lastOp = NoOp
    /\ lastChain = [t \in TaskTypes |-> NoChain]

\* SpecTools: the registry and the dispatcher, called directly
InitTools == ToolInit(<<>>) /\ CallIdle /\ connected = TRUE

NextTools ==
    \/ \E tool \in ToolUniverse : RegisterTool(tool) /\ UNCHANGED callVars
    \/ \E t \in TaskTypes : PrepareTools(t) /\ UNCHANGED callVars
    \/ \E t \in TaskTypes : ExecuteToolChain(t) /\ UNCHANGED callVars
    \/ \E t \in TaskTypes : ClearCache(t) /\ UNCHANGED callVars
    \/ ClearCacheAll /\ UNCHANGED callVars
    \/ /\ SoftwareChange
       /\ lastOp' = [op |-> "environment", arg |-> "", error |-> NoError,
                     value |-> ""]
       /\ UNCHANGED callVars

SpecTools == InitTools /\ [][NextTools]_vars

\* SpecRegistry: the registry, with execute_tool called directly
NextRegistry ==
    \/ \E tool \in ToolUniverse : RegisterTool(tool) /\ UNCHANGED callVars
    \/ \E t \in TaskTypes : PrepareTools(t) /\ UNCHANGED callVars
    \/ \E n \in ToolNames \cup {UnknownTool} : ExecuteTool(n) /\ UNCHANGED callVars
    \/ /\ SoftwareChange
       /\ lastOp' = [op |-> "environment", arg |-> "", error |-> NoError,
                     value |-> ""]
       /\ UNCHANGED callVars

SpecRegistry == InitTools /\ [][NextRegistry]_vars

\* Spec: handle_request calls on an orchestrator whose registry was filled
\* at startup
StartupRegistries == {<<>>, <<Scanner, Builder>>, <<Scanner, Builder2>>}
TaskLists == {<<>>, <<"analyze_site">>, <<"analyze_site", "place_structure">>,
              <<"analyze_site", "place_structure", "analyze_site">>}

Understandings ==
    {[present |-> TRUE, q |-> q, size |-> m, importance |-> m,
      visibility |-> Missing, context_fit |-> Missing, style_fit |-> Missing,
      is_process |-> p, has_tasks |-> TRUE, required_tasks |-> ts] :
        q \in BOOLEAN, m \in {Missing, 8}, p \in BOOLEAN, ts \in TaskLists}
    \cup
    {[EmptyUnderstanding EXCEPT !.q = q, !.is_process = TRUE] : q \in BOOLEAN}

Init ==
    /\ \E reg \in StartupRegistries : ToolInit(reg)
    /\ CallIdle
    /\ connected \in BOOLEAN

Next ==
    \/ Receive(MaxCalls)
    \/ BaseEnter
    \/ Analyze(Understandings)
    \/ Execute
    \/ ExecuteTask
    \/ Completion
    \/ Reflect
    \/ Respond
    \/ ConnectionChange
    \/ SoftwareChange /\ UNCHANGED <<lastOp, callVars>>

Spec == Init /\ [][Next]_vars

\* SpecGate: handle_request calls whose analysis ranges over the metrics
ImpactLevels == {Missing, 7, 8}
ContextFitLevels == {Missing, 3, 4}
StyleFitLevels == {Missing, 5, 6}

GateUnderstandings ==
    {[present |-> TRUE, q |-> q, size |-> s, importance |-> i,
      visibility |-> v, context_fit |-> c, style_fit |-> f,
      is_process |-> TRUE, has_tasks |-> TRUE,
      required_tasks |-> <<"analyze_site">>] :
        q \in BOOLEAN, s \in ImpactLevels, i \in ImpactLevels,
        v \in ImpactLevels, c \in ContextFitLevels, f \in StyleFitLevels}

InitGate ==
    /\ ToolInit(<<Scanner>>)
    /\ CallIdle
    /\ connected = TRUE
    /\ softwareOK = TRUE

NextGate ==
    \/ Receive(GateCalls)
    \/ BaseEnter
    \/ Analyze(GateUnderstandings)
    \/ Execute
    \/ ExecuteTask
    \/ Respond
    \/ ConnectionChange

SpecGate == InitGate /\ [][NextGate]_vars

\* SpecRequirements: check_requirements called on the tools of a registry
\* filled from descriptors with every combination of requirement kinds
RequirementKinds == {"software", "user_request", "gpu"}
ToolDescriptors ==
    {[name |-> n, supported_tasks |-> {"place_structure"}, requirements |-> r] :
        n \in ToolNames, r \in SUBSET RequirementKinds}

CheckRequirements(tool) ==
    /\ lastOp' = [op |-> "check_requirements", arg |-> tool,
                  error |-> NoError,
                  value |-> check_requirements(tool, softwareOK)]
    /\ UNCHANGED <<tools, softwareOK, current_task_tools, tool_cache, invoked,
                   passed, cache_owner, lastChain>>

NextRequirements ==
    \/ \E tool \in ToolDescriptors : RegisterTool(tool) /\ UNCHANGED callVars
    \/ \E i \in 1..Len(tools) : CheckRequirements(tools[i]) /\ UNCHANGED callVars
    \/ /\ SoftwareChange
       /\ lastOp' = [op |-> "environment", arg |-> "", error |-> NoError,
                     value |-> ""]
       /\ UNCHANGED callVars

SpecRequirements == InitTools /\ [][NextRequirements]_vars

\* SpecPlanner: plan_tasks called while the language model proposes plans
PlanTasks(proposal) ==
    LET r == plan_tasks(proposal)
    IN  /\ lastOp' = [op |-> "plan_tasks", arg |-> proposal,
                      error |-> r.error, value |-> r.tasks]
        /\ UNCHANGED <<tools, softwareOK, current_task_tools, tool_cache,
                       invoked, passed, cache_owner, lastChain>>

NextPlanner == \E proposal \in Proposals : PlanTasks(proposal) /\ UNCHANGED callVars

SpecPlanner == InitTools /\ [][NextPlanner]_vars

\* SpecTaskMemory: the memory layer's _execute_task around the results of a
\* super()._execute_task whose artifacts may carry derived fields
ScannerDone == [EmptyMap EXCEPT !["scanner"] = ToolResult(TRUE, "scanner", "done", NoError)]
ToolArtifacts ==
    [tool_results |-> ScannerDone, task_output |-> process_tool_results(ScannerDone)]
DerivedFields ==
    {<<>>,
     [learned_info |-> "the site is flat"],
     [learned_info |-> "the site is flat", project_relevant |-> FALSE],
     [learned_info |-> "the site is flat", project_relevant |-> TRUE],
     [project_relevant |-> TRUE]}
BaseResults ==
    {TaskResult(TRUE, "Task completed successfully", ToolArtifacts @@ d, NoError) :
        d \in DerivedFields}
    \cup {TaskFailed(MsgNoLogger)}
WriteOutcomes == [action : BOOLEAN, knowledge : BOOLEAN, collective : BOOLEAN]

TrackTask(task_type, base, ok) ==
    LET r == tracked_execute_task(Task(task_type), base, memory_log, ok)
    IN  /\ Len(memory_log) < MaxLog
        /\ memory_log' = r.log
        /\ lastOp' = [op |-> "_execute_task",
                      arg |-> [task |-> Task(task_type), base |-> base],
                      error |-> NoError,
                      value |-> [result |-> r.result,
                                 appended |-> SubSeq(r.log, Len(memory_log) + 1,
                                                     Len(r.log)),
                                 collective |-> r.collective]]
        /\ UNCHANGED <<tools, softwareOK, current_task_tools, tool_cache,
                       invoked, passed, cache_owner, lastChain>>
        /\ UNCHANGED <<connected, pc, analysis_response, understanding,
                       results, started, procResult, baseResult, response,
                       escaped, calls>>
        /\ UNCHANGED <<current_context, flight>>

NextTaskMemory ==
    \E t \in TaskTypes, base \in BaseResults, ok \in WriteOutcomes :
        TrackTask(t, base, ok)

SpecTaskMemory == InitTools /\ [][NextTaskMemory]_vars

\* SpecConcurrent: two handle_request calls on one orchestrator, interleaved
\* where they await
ConcurrentUnderstandings ==
    {[present |-> TRUE, q |-> q, size |-> 8, importance |-> 8,
      visibility |-> Missing, context_fit |-> Missing, style_fit |-> Missing,
      is_process |-> TRUE, has_tasks |-> TRUE, required_tasks |-> <<t>>] :
        q \in BOOLEAN, t \in TaskTypes}

InitConcurrent ==
    /\ ToolInit(<<Scanner, Builder2>>)
    /\ CallIdle
    /\ connected \in BOOLEAN

NextConcurrent ==
    \/ \E c \in Calls : CallStart(c)
    \/ \E c \in Calls : CallEnter(c)
    \/ \E c \in Calls : CallAnalyzed(c, ConcurrentUnderstandings)
    \/ \E c \in Calls : CallTaskDone(c)
    \/ \E c \in Calls : CallReturn(c)

SpecConcurrent == InitConcurrent /\ [][NextConcurrent]_vars

\* SpecQuery: the memory manager queried while the orchestrator writes
\* conversation, action and knowledge records, also for a task whose type
\* is the string "action"
QueryTaskTypes == {"analyze_site", "action"}
QueryResults ==
    {TaskResult(TRUE, "Task completed successfully", ToolArtifacts @@ d, NoError) :
        d \in {<<>>, [learned_info |-> "the site is flat"]}}
    \cup {TaskFailed(MsgNoLogger)}
AllWrites == [action |-> TRUE, knowledge |-> TRUE, collective |-> TRUE]
InnerReplies == {Processing, NotConnected, format_clarification_request(Question)}
QueryTags == {NoTags, Tags({"action"}), Tags({"knowledge", "user_input"}),
              Tags({"gpu"})}
QueryThresholds == {0, 85, 90}
QueryLimits == {1, 2}

NextQuery ==
    \/ \E reply \in InnerReplies : Conversation(reply)
    \/ \E t \in QueryTaskTypes, base \in QueryResults : TrackTask(t, base, AllWrites)
    \/ \E tags \in QueryTags, th \in QueryThresholds, limit \in QueryLimits :
          QueryMemories(tags, th, limit)
    \/ \E tags \in QueryTags : QueryRelevantMemories(tags)

SpecQuery == InitTools /\ [][NextQuery]_vars

\* SpecLive: one handle_request call, when every awaited call (the language
\* model, the memory manager) returns and the event loop goes on running a
\* call that can take its next step.  The caller need not call.
CallStep ==
    \/ BaseEnter
    \/ Analyze(Understandings)
    \/ Execute
    \/ ExecuteTask
    \/ Completion
    \/ Reflect
    \/ Respond
Fairness == WF_vars(CallStep)

NextLive ==
    \/ Receive(GateCalls)
    \/ CallStep

SpecLive == Init /\ [][NextLive]_vars /\ Fairness

-----------------------------------------------------------------------------
(* Properties *)

IsClarification(r) == Truthy(r, "needs_clarification")
Gated == understanding.present /\ pc # "analyzing"
Returned == pc = "returned" /\ ~escaped

\* C1: an Understanding without a clarification question never gets a
\* needs_clarification response, whatever its impact and confidence metrics
\* are: neither from the inner handle_request nor from the memory layer.
C1_NoQuestionNoClarification ==
    (Gated /\ ~understanding.q) =>
        (~IsClarification(baseResult) /\ ~IsClarification(response))

\* a call without a question but with a high-impact analysis has returned
C1_Witness ==
    /\ Returned
    /\ understanding.present /\ ~understanding.q
    /\ understanding.size = 8 /\ understanding.importance = 8
    /\ understanding.context_fit = 3
    /\ response = Processing

\* the gate condition written out from the metrics: a missing impact field
\* counts as 0, a missing confidence field as 10 tenths
MetricOr(v, d) == IF v = Missing THEN d ELSE v
GateCondition(u) ==
    /\ u.q
    /\ \/ MetricOr(u.size, 0) > 7 /\ MetricOr(u.importance, 0) > 7
       \/ MetricOr(u.context_fit, 10) < 4
       \/ MetricOr(u.visibility, 0) > 7 /\ MetricOr(u.style_fit, 10) < 6

\* C2: the inner handle_request answers with a clarification exactly when the
\* Understanding has a question and the gate condition holds; the caller
\* gets a clarification only then; with a question and no metrics the call
\* goes on to execution.
C2_ClarificationIff ==
    Gated =>
        /\ IsClarification(baseResult) <=> GateCondition(understanding)
        /\ IsClarification(response) => GateCondition(understanding)
        /\ (Returned /\ GateCondition(understanding)) =>
              (IsClarification(response) \/ response = ErrorResponse(MsgMemory))

\* a call with a question and no metric at all is executing its task
C2_Witness ==
    /\ pc = "task"
    /\ understanding.q
    /\ understanding.size = Missing /\ understanding.importance = Missing
    /\ understanding.visibility = Missing
    /\ understanding.context_fit = Missing /\ understanding.style_fit = Missing

\* v is u with impact fields raised and confidence fields lowered
Riskier(v, u) ==
    /\ v.q = u.q
    /\ MetricOr(v.size, 0) >= MetricOr(u.size, 0)
    /\ MetricOr(v.importance, 0) >= MetricOr(u.importance, 0)
    /\ MetricOr(v.visibility, 0) >= MetricOr(u.visibility, 0)
    /\ MetricOr(v.context_fit, 10) <= MetricOr(u.context_fit, 10)
    /\ MetricOr(v.style_fit, 10) <= MetricOr(u.style_fit, 10)

\* C3: with a question, size and importance both above 0.7 always give a
\* clarification, and so does context_fit below 0.4; and when a call was
\* answered with a clarification, every Understanding with higher impact and
\* lower confidence is answered with a clarification too.
C3_Monotonic ==
    (Gated /\ understanding.q) =>
        /\ (understanding.size > 7 /\ understanding.importance > 7)
              => IsClarification(baseResult)
        /\ (understanding.context_fit # Missing /\ understanding.context_fit < 4)
              => IsClarification(baseResult)
        /\ IsClarification(baseResult) =>
              \A v \in GateUnderstandings :
                  Riskier(v, understanding) => ClarificationGate(v)

\* a clarification that only size and importance above 0.7 explain
C3_Witness ==
    /\ Returned
    /\ IsClarification(response)
    /\ understanding.size = 8 /\ understanding.importance = 8
    /\ understanding.visibility = 7
    /\ understanding.context_fit = 4 /\ understanding.style_fit = 5

ChainStep(t) == lastOp'.op = "execute_tool_chain" /\ lastOp'.arg = t

C5_DuplicateRejected ==
    [][(lastOp'.op = "register_tool" /\ lastOp'.arg \in RegisteredNames(tools)) =>
          (lastOp'.error = MsgDuplicate /\ tools' = tools)]_vars

\* a second tool named "builder" was refused and the first is still there
C5_Witness ==
    /\ lastOp.op = "register_tool"
    /\ lastOp.arg = "builder"
    /\ lastOp.error = MsgDuplicate
    /\ \E i \in 1..Len(tools) : tools[i] = Builder2

\* C6: when the result of task k asks for user input, the process flow
\* returns exactly that result and runs no later task.
C6_FailFast ==
    \A k \in 1..Len(results) :
        (pc \in {"respond", "returned"} /\ SignalsUserInput(results[k])) =>
            (procResult = results[k] /\ Len(results) = k)

\* C7: a process of analyze_site then place_structure whose tasks all
\* succeed ends with a completion response and two ActionMemory records.
IsCompletion(r) ==
    /\ DOMAIN r \in {{"success", "message", "artifacts"},
                     {"success", "message", "artifacts", "reflection"}}
    /\ r.success = TRUE
ActionRecords(log) == SelectSeq(log, LAMBDA m : m.kind = "action")
C7_TwoTasksComplete ==
    (/\ Returned
     /\ calls = 1
     /\ understanding.is_process /\ ~understanding.q
     /\ understanding.required_tasks = <<"analyze_site", "place_structure">>
     /\ Len(results) >= 1
     /\ \A k \in 1..Len(results) : results[k].success
     /\ response # ErrorResponse(MsgMemory)) =>
        /\ IsCompletion(response)
        /\ Len(ActionRecords(memory_log)) = 2
        /\ ActionRecords(memory_log)[1].action_type = "analyze_site"
        /\ ActionRecords(memory_log)[2].action_type = "place_structure"

\* C8: a task whose type no registered tool supports gets a failed
\* TaskResult whose error text contains "No compatible tools", and no tool
\* runs.
ContainsNoCompatibleTools(err) == err = MsgNoCompatible
C8_NoCompatibleTools ==
    (/\ pc \in {"respond", "returned"}
     /\ Len(results) > 0
     /\ get_tools_for_task(tools, understanding.required_tasks[Len(results)]) = <<>>
     /\ results[Len(results)].error # MsgMemory) =>
        /\ ~results[Len(results)].success
        /\ ContainsNoCompatibleTools(results[Len(results)].error)
        /\ invoked = NoInvocations

\* C9: no exception leaves handle_request; a call that has ended has
\* returned a response.
C9_NeverRaises ==
    /\ ~escaped
    /\ pc = "returned" => response # NoResponse

\* the missing _handle_task came back to the caller as an {error} response
C9_Witness ==
    /\ Returned
    /\ understanding.present /\ ~understanding.is_process
    /\ response = ErrorResponse(MsgNoHandleTask)

IsClarificationShape(r) ==
    /\ DOMAIN r = {"needs_clarification", "message", "context"}
    /\ r.needs_clarification = TRUE
IsProcessingShape(r) == DOMAIN r = {"status"} /\ r.status = "processing"
IsErrorShape(r) == DOMAIN r = {"error"}
IsStatusErrorShape(r) == DOMAIN r = {"status", "message"} /\ r.status = "error"
FourShapes(r) ==
    \/ IsClarificationShape(r)
    \/ IsProcessingShape(r)
    \/ IsCompletion(r)
    \/ IsErrorShape(r)

MalformedKinds == {"not_json", "non_object"}
ParseFailures == {ErrorResponse(MsgNotADict), ErrorResponse("JSONDecodeError")}

\* C11: when the language model's answer is malformed or unparseable, the
\* analysis step yields the empty Understanding and the call goes on to the
\* execution step; the parse failure is never the response of the call.
C11_MalformedDegrades ==
    [][analysis_response' \in MalformedKinds =>
          /\ understanding' = EmptyUnderstanding
          /\ analysis_response = NoAnalysis => pc' = "execute"
          /\ baseResult' \notin ParseFailures
          /\ response' \notin ParseFailures]_vars

\* text that is not JSON does degrade: the empty Understanding reached the
\* execution step
NotJsonDegrades ==
    [][analysis_response' = "not_json" =>
          /\ understanding' = EmptyUnderstanding
          /\ analysis_response = NoAnalysis => pc' = "execute"
          /\ baseResult' \notin ParseFailures
          /\ response' \notin ParseFailures]_vars

\* the state of the inner handle_request call, read off the model
Outcome(r) ==
    IF IsClarification(r) THEN "ClarificationNeeded"
    ELSE IF IsCompletion(r) THEN "Completed"
    ELSE IF IsProcessingShape(r) THEN "Processing"
    ELSE "Failed"
Phase ==
    IF pc = "base" THEN "Received"
    ELSE IF pc = "analyzing" THEN "Analyzing"
    ELSE IF pc \in {"execute", "task", "completion", "reflect"} THEN "Executing"
    ELSE IF pc \in {"respond", "returned"} /\ baseResult # NoResponse
    THEN Outcome(baseResult)
    ELSE "Idle"
PhaseNext ==
    IF pc' = "base" THEN "Received"
    ELSE IF pc' = "analyzing" THEN "Analyzing"
    ELSE IF pc' \in {"execute", "task", "completion", "reflect"} THEN "Executing"
    ELSE IF pc' \in {"respond", "returned"} /\ baseResult' # NoResponse
    THEN Outcome(baseResult')
    ELSE "Idle"
Terminal(ph) == ph \in {"ClarificationNeeded", "Completed", "Failed", "Processing"}

\* a terminal call takes no further step: until the next call is received no
\* tool is prepared or invoked and the call's own state stays as it is
NoFurtherStep ==
    (Terminal(Phase) /\ calls' = calls) =>
        /\ PhaseNext = Phase
        /\ UNCHANGED <<tools, current_task_tools, tool_cache, invoked,
                       analysis_response, understanding, results, started, procResult,
                       baseResult>>

\* C12 as stated: Received -> Analyzing -> {ClarificationNeeded | Executing}
\* -> {Completed | Failed}, Failed also from Analyzing, and no step after a
\* terminal state.
StatedTransition(a, b) ==
    \/ a = b
    \/ /\ calls' = calls + 1           \* the next call is received
       /\ a = "Idle" \/ Terminal(a)
       /\ b \in {"Received", "Idle"}
    \/ a = "Received" /\ b = "Analyzing"
    \/ a = "Analyzing" /\ b \in {"ClarificationNeeded", "Executing", "Failed"}
    \/ a = "Executing" /\ b \in {"Completed", "Failed"}
CodeTransition(a, b) ==
    \/ StatedTransition(a, b)
    \/ a = "Received" /\ b = "Failed" /\ ~connected
    \/ a = "Executing" /\ b = "Processing"
ToolErrors == {MsgNotFound, MsgReqNotMet, MsgToolRaised}

\* the position in ts of the tool the chain stopped at: the first without an
\* entry in the result mapping built so far
FirstFailed(ts, res) ==
    CHOOSE i \in 1..Len(ts) :
        /\ res[ts[i].name] = Absent
        /\ \A j \in 1..(i - 1) : res[ts[j].name] # Absent

\* a chain call that met a failing tool raised, and ran no tool prepared
\* after the failing one; a chain call that returned has a successful result
\* for every prepared tool
FailureStopsChain(t) ==
    LET ts == current_task_tools[t]
        c == lastChain'[t]
    IN  /\ c.st = "returned" =>
              \A i \in 1..Len(ts) : c.results[ts[i].name].success
        /\ c.st = "raised" =>
              /\ lastOp'.error # NoError
              /\ \A j \in (FirstFailed(ts, c.results) + 1)..Len(ts) :
                    /\ c.ninv[ts[j].name] = 0
                    /\ c.results[ts[j].name] = Absent
ChainStopsAtFailure ==
    [][\A t \in TaskTypes : ChainStep(t) => FailureStopsChain(t)]_vars

\* C14: the failure of a single tool aborts the whole chain: the call raises
\* an error that names the failed tool, returns no mapping, and invokes no
\* tool prepared after the failed one.
C14_FailureAbortsChain ==
    [][\A t \in TaskTypes :
          ChainStep(t) =>
             /\ FailureStopsChain(t)
             /\ lastChain'[t].st = "raised" =>
                   \E e \in ToolErrors :
                       lastOp'.error =
                           ToolFailedMsg(
                               current_task_tools[t][
                                   FirstFailed(current_task_tools[t],
                                               lastChain'[t].results)].name,
                               e)]_vars

\* C15: the cache holds only results of successful invocations; an entry is
\* written only by a chain call that invoked the tool and got a success, and
\* the tool a chain call failed at keeps the cache entry it had.
C15_CacheOnlySuccess ==
    [][/\ \A n \in ToolNames :
             tool_cache'[n] # Absent =>
                 /\ tool_cache'[n].success
                 /\ tool_cache'[n].tool = n
                 /\ tool_cache'[n].error = NoError
       /\ \A t \in TaskTypes :
             ChainStep(t) =>
                 /\ \A n \in ToolNames :
                       tool_cache'[n] # tool_cache[n] =>
                           /\ tool_cache[n] = Absent
                           /\ invoked'[n] = 1
                           /\ lastChain'[t].results[n] = tool_cache'[n]
                 /\ lastChain'[t].st = "raised" =>
                       LET f == current_task_tools[t][
                                   FirstFailed(current_task_tools[t],
                                               lastChain'[t].results)].name
                       IN  tool_cache'[f] = tool_cache[f]]_vars

\* a chain call cached its first tool's result, then its second tool was
\* invoked, failed, and got no cache entry
C15_Witness ==
    /\ lastOp.op = "execute_tool_chain"
    /\ lastOp.error # NoError
    /\ \E n, m \in ToolNames :
          /\ invoked[n] = 1 /\ tool_cache[n] = Absent
          /\ invoked[m] = 1 /\ tool_cache[m].success

PrepareStep(t) == lastOp'.op = "prepare_tools_for_task" /\ lastOp'.arg = t

\* what holds of prepare_tools_for_task whatever the text of its error: it
\* fails when no registered tool supports the type or a matched tool's
\* requirements are unmet, leaving the prepared sets and the cache as they
\* were, and otherwise records exactly the matched tools
PrepareOutcome(t) ==
    LET matched == get_tools_for_task(tools, t)
        unmet == \E i \in 1..Len(matched) : ~check_requirements(matched[i], softwareOK)
    IN  /\ tool_cache' = tool_cache
        /\ \A u \in TaskTypes \ {t} : current_task_tools'[u] = current_task_tools[u]
        /\ IF matched = <<>> \/ unmet
           THEN /\ lastOp'.error # NoError
                /\ current_task_tools'[t] = current_task_tools[t]
           ELSE /\ lastOp'.error = NoError
                /\ current_task_tools'[t] = matched
PrepareKeepsState ==
    [][\A t \in TaskTypes : PrepareStep(t) => PrepareOutcome(t)]_vars

\* C16: prepare_tools_for_task(T) fails with a no-compatible-tools error when
\* no registered tool supports T, with a requirements-not-met error when a
\* matched tool's requirements are unmet, and otherwise succeeds and records
\* exactly the matched tools; a failure leaves the prepared set of T and the
\* cache unchanged.
C16_PrepareErrors ==
    [][\A t \in TaskTypes :
          PrepareStep(t) =>
             LET matched == get_tools_for_task(tools, t)
             IN  /\ PrepareOutcome(t)
                 /\ matched = <<>> => lastOp'.error = MsgNoCompatible
                 /\ (matched # <<>> /\ lastOp'.error # NoError) =>
                        lastOp'.error = MsgReqNotMet]_vars

\* the tool of a given name in a prepared list
PreparedTool(ts, n) == ts[CHOOSE i \in 1..Len(ts) : ts[i].name = n]
WasCalled(n) == invoked'[n] = 1 /\ passed'[n] # NotCalled

\* C17 as stated: every tool the chain invokes is passed exactly its declared
\* requirement keys.
C17_ExactlyRequirements ==
    [][\A t \in TaskTypes : \A n \in ToolNames :
          (ChainStep(t) /\ WasCalled(n)) =>
              DOMAIN passed'[n] =
                  PreparedTool(current_task_tools[t], n).requirements]_vars

\* C17, amended: every tool the chain invokes is passed the entries of the
\* context under exactly those of its declared requirement keys that the
\* context holds: no key outside its requirements, and each value as the
\* context has it.
C17_LeastContext ==
    [][\A t \in TaskTypes : \A n \in ToolNames :
          (ChainStep(t) /\ WasCalled(n)) =>
              LET req == PreparedTool(current_task_tools[t], n).requirements
                  context == lastChain'[t].context
              IN  /\ DOMAIN passed'[n] \subseteq req
                  /\ DOMAIN passed'[n] = req \cap DOMAIN context
                  /\ \A k \in DOMAIN passed'[n] :
                        passed'[n][k] = context[k]]_vars

\* a tool that requires "user_request" was invoked with that entry alone,
\* from a context that holds more
C17_Witness ==
    /\ lastOp.op = "execute_tool_chain"
    /\ lastChain[lastOp.arg].context = ProcessContextDict
    /\ invoked["builder"] = 1
    /\ passed["builder"] = [user_request |-> Request]

PreparedNames(t) ==
    {current_task_tools[t][i].name : i \in 1..Len(current_task_tools[t])}
Position(ts, n) == CHOOSE i \in 1..Len(ts) : ts[i].name = n

\* the tools whose entry the clear_cache call of the last step removed
Affected ==
    IF lastOp.arg = "" THEN ToolNames ELSE PreparedNames(lastOp.arg)

\* clear_cache(T) removes the entries of the tools prepared for T and no
\* other; clear_cache() removes every entry; neither changes a prepared set
ClearFrame ==
    lastOp'.op = "clear_cache" =>
        /\ current_task_tools' = current_task_tools
        /\ \A n \in ToolNames :
              tool_cache'[n] =
                  IF lastOp'.arg = "" \/ n \in PreparedNames(lastOp'.arg)
                  THEN Absent ELSE tool_cache[n]

\* C18 as stated: the frame of clear_cache, and the chain call that follows
\* it invokes the capability of every affected tool it is prepared with.
C18_ClearThenInvoke ==
    [][/\ ClearFrame
       /\ \A t \in TaskTypes :
             (lastOp.op = "clear_cache" /\ ChainStep(t)) =>
                 \A n \in Affected \cap PreparedNames(t) : invoked'[n] = 1]_vars

\* C18, amended: the frame of clear_cache, and the chain call that follows
\* it serves no affected tool from the cache: every result it has for one
\* comes from an invocation made by this call, and when the chain gets to
\* the tool and the tool's requirements hold, its capability is invoked.
C18_ClearThenNoCacheHit ==
    [][/\ ClearFrame
       /\ \A t \in TaskTypes :
             (lastOp.op = "clear_cache" /\ ChainStep(t)) =>
                 \A n \in Affected \cap PreparedNames(t) :
                     LET ts == current_task_tools[t]
                         c == lastChain'[t]
                         reached == \/ c.st = "returned"
                                    \/ Position(ts, n) <= FirstFailed(ts, c.results)
                     IN  /\ c.results[n] # Absent => invoked'[n] = 1
                         /\ (reached /\ check_requirements(PreparedTool(ts, n),
                                                          softwareOK))
                                => invoked'[n] = 1]_vars

\* clear_cache(analyze_site) removed the scanner's entry and kept the entry
\* of the builder, which is prepared for place_structure only
C18_Witness ==
    /\ lastOp.op = "clear_cache" /\ lastOp.arg = "analyze_site"
    /\ lastOp.value = "evicted"
    /\ PreparedNames("analyze_site") = {"scanner"}
    /\ tool_cache["scanner"] = Absent
    /\ tool_cache["builder"].success

\* C19: a result cached while running the chain of one task type is not
\* returned by the chain of another task type; the tool's capability is
\* invoked again for that other type.
C19_CachePerTaskType ==
    [][\A t \in TaskTypes : \A n \in ToolNames :
          (/\ ChainStep(t)
           /\ n \in PreparedNames(t)
           /\ tool_cache[n] # Absent
           /\ cache_owner[n] # t
           /\ lastChain'[t].results[n] # Absent) =>
              /\ invoked'[n] = 1
              /\ cache_owner'[n] = t]_vars

\* the entry each chain call returns without invoking the tool was written
\* under the tool's name, by the chain of whatever task type ran it first
CacheKeyedByName ==
    [][\A t \in TaskTypes : \A n \in ToolNames :
          (/\ ChainStep(t)
           /\ n \in PreparedNames(t)
           /\ tool_cache[n] # Absent
           /\ lastChain'[t].results[n] # Absent) =>
              /\ invoked'[n] = 0
              /\ lastChain'[t].results[n] = tool_cache[n]
              /\ cache_owner'[n] = cache_owner[n]]_vars

ExecuteToolStep(n) == lastOp'.op = "execute_tool" /\ lastOp'.arg = n
RegisteredTool(reg, n) == reg[CHOOSE i \in 1..Len(reg) : reg[i].name = n]

\* C20: execute_tool(name) fails with a tool-not-found error when no tool of
\* that name is registered and with a requirements-not-met error when the
\* tool's requirements are unmet at the time of the call, in both cases
\* without invoking the tool; otherwise it invokes the tool once with the
\* given arguments and returns the tool's raw result or lets the tool's
\* exception through.
C20_ExecuteTool ==
    [][\A n \in ToolNames \cup {UnknownTool} :
          ExecuteToolStep(n) =>
              IF n \notin RegisteredNames(tools)
              THEN /\ lastOp'.error = MsgNotFound
                   /\ invoked' = NoInvocations
              ELSE IF ~check_requirements(RegisteredTool(tools, n), softwareOK)
              THEN /\ lastOp'.error = MsgReqNotMet
                   /\ invoked' = NoInvocations
              ELSE /\ invoked' = [NoInvocations EXCEPT ![n] = 1]
                   /\ passed'[n] \in Contexts
                   /\ \/ lastOp'.error = NoError /\ lastOp'.value \in ToolOutputs
                      \/ lastOp'.error = MsgToolRaised]_vars

\* the builder was prepared while its software was there, and a later
\* execute_tool("builder") failed on the requirement without invoking it
C20_Witness ==
    /\ lastOp.op = "execute_tool" /\ lastOp.arg = "builder"
    /\ lastOp.error = MsgReqNotMet
    /\ invoked = NoInvocations
    /\ \E t \in TaskTypes : "builder" \in PreparedNames(t)

RequirementsChecked == lastOp.op = "check_requirements"
KnownKinds == {"software"}

\* C21: check_requirements(tool) returns true when the tool declares no
\* requirements, returns false when a declared requirement of a known kind
\* (the named program) is not satisfiable, and treats every requirement of
\* an unknown kind as satisfied: the answer is that of the same tool with
\* the unknown kinds left out.
C21_CheckRequirements ==
    RequirementsChecked =>
        LET reqs == lastOp.arg.requirements
            known == reqs \cap KnownKinds
        IN  /\ reqs = {} => lastOp.value = TRUE
            /\ ("software" \in reqs /\ ~softwareOK) => lastOp.value = FALSE
            /\ lastOp.value = (known = {} \/ softwareOK)

\* a tool that requires a program and two things of unknown kind was checked
\* while the program was missing, and the answer was false
C21_Witness ==
    /\ RequirementsChecked
    /\ lastOp.arg.requirements = RequirementKinds
    /\ ~softwareOK
    /\ lastOp.value = FALSE

Planned == lastOp.op = "plan_tasks"
WellFormedPlan(p) ==
    /\ p.is_list
    /\ \A i \in 1..Len(p.items) :
          /\ p.items[i].is_dict
          /\ {"type", "parameters"} \subseteq p.items[i].keys

\* C22: plan_tasks is all-or-nothing and never raises: it returns the
\* language model's full task list unchanged and in order when that is a
\* sequence of mappings each with a task type and parameters, and the empty
\* list for any violation.
C22_AllOrNothing ==
    Planned =>
        /\ lastOp.error = NoError
        /\ lastOp.value = IF WellFormedPlan(lastOp.arg) THEN lastOp.arg.items
                          ELSE <<>>

\* what the code does instead: every call ends in the TypeError of
\* process_message, whatever the language model proposed
PlanTasksRaises == Planned => lastOp.error = MsgBadKeyword /\ lastOp.value = <<>>

\* one turn of the task loop: the task it runs, the tools compatible with
\* it, and the TaskResult that _execute_task returns
TaskStep == pc = "task" /\ Len(results') = Len(results) + 1
StepTask == Task(understanding.required_tasks[Len(results) + 1])
StepTools == get_tools_for_task(tools, StepTask.type)
StepResult == results'[Len(results')]
RequirementsHold(ts) ==
    \A i \in 1..Len(ts) : "software" \in ts[i].requirements => softwareOK
\* the chain of the turn ran every compatible tool, or took it from the cache
ChainSucceeded ==
    /\ StepTools # <<>>
    /\ RequirementsHold(StepTools)
    /\ \A i \in 1..Len(StepTools) : tool_cache'[StepTools[i].name].success
FailedTaskResult(r) ==
    /\ ~r.success
    /\ r.artifacts = EmptyArtifacts
    /\ r.error \notin {NoError, ""}

\* C23: execute_task never raises: every turn of the loop gets a TaskResult
\* back, and when the preparation of the tools or the tool chain fails (no
\* compatible tool, an unmet requirement, a failing tool) that TaskResult
\* has success = false, empty artifacts and a non-empty error string.
C23_TaskErrorsCaught ==
    [][(pc = "task" /\ <<pc, results, tool_cache, invoked>>' #
                           <<pc, results, tool_cache, invoked>>) =>
          /\ TaskStep
          /\ ~escaped'
          /\ results' = Append(results, StepResult)
          /\ StepResult.success \/ FailedTaskResult(StepResult)
          /\ ~ChainSucceeded => FailedTaskResult(StepResult)]_vars

\* a task whose tool was invoked and failed came back as a failed
\* TaskResult
C23_Witness ==
    /\ results # <<>>
    /\ FailedTaskResult(results[Len(results)])
    /\ \E n \in ToolNames : invoked[n] = 1 /\ tool_cache[n] = Absent

\* C24: a memory-write failure does not mask a successful task: when the
\* tool chain of a task succeeds, execute_task returns a TaskResult with
\* success = true and the produced artifacts, whether or not the add_memory
\* call that follows succeeds.
C24_MemoryFailureNotMasking ==
    [][(pc = "task" /\ TaskStep /\ ChainSucceeded) =>
          /\ StepResult.success
          /\ StepResult.artifacts # EmptyArtifacts
          /\ \A i \in 1..Len(StepTools) :
                StepResult.artifacts.tool_results[StepTools[i].name].success]_vars

Last(log) == log[Len(log)]
IsActionRecord(rec, task, result) ==
    /\ rec.kind = "action"
    /\ rec.importance = 90
    /\ rec.tags = {"action", task.type}
    /\ rec.parameters = task.parameters
    /\ rec.result = result.artifacts
    /\ rec.success = result.success
\* the store refused the record, and the turn ended there
WriteRefused(result) == result.error = MsgMemory

\* C25: every executed task appends exactly one ActionMemory with importance
\* 0.9, tags {"action", task.type}, the task's parameters, the result's
\* artifacts and the success flag of the returned TaskResult; the record is
\* appended in the turn of its task, after the tool chain and before the
\* next task starts.  (Appending is calling add_memory once: a turn whose
\* add_memory call is refused by the store leaves the log as it was.)
C25_OneActionMemoryPerTask ==
    [][(pc = "task" /\ TaskStep) =>
          \/ /\ Len(memory_log') = Len(memory_log) + 1
             /\ memory_log' = Append(memory_log, Last(memory_log'))
             /\ IsActionRecord(Last(memory_log'), StepTask, StepResult)
          \/ /\ WriteRefused(StepResult)
             /\ memory_log' = memory_log]_vars

\* a task whose chain succeeded was recorded with its artifacts, and the
\* record is the latest entry of the log when the loop is left
C25_Witness ==
    /\ pc = "respond"
    /\ results # <<>>
    /\ Last(results).success
    /\ memory_log # <<>>
    /\ IsActionRecord(Last(memory_log), Task(understanding.required_tasks[Len(results)]),
                      Last(results))

Tracked == lastOp.op = "_execute_task"
TrackedTask == lastOp.arg.task
TrackedArtifacts == lastOp.arg.base.artifacts
Appended == lastOp.value.appended
Forwarded == lastOp.value.collective
IsKnowledgeRecord(rec, task) ==
    /\ rec.kind = "knowledge"
    /\ rec.importance = 85
    /\ rec.tags = {"knowledge", task.type}
KnowledgeAppended ==
    \E i \in 1..Len(Appended) : IsKnowledgeRecord(Appended[i], TrackedTask)
NoWriteRefused == lastOp.value.result.error # MsgMemory

\* the first half of C26, which the code keeps: unless a store refuses a
\* write, a KnowledgeMemory is appended exactly when the artifacts include
\* learned_info
KnowledgeIffLearned ==
    (Tracked /\ NoWriteRefused) =>
        (KnowledgeAppended <=> "learned_info" \in DOMAIN TrackedArtifacts)

IsUserRecord(rec) ==
    /\ rec.kind = "conversation"
    /\ rec.role = "user"
    /\ rec.importance = 80
    /\ rec.tags = {"conversation", "user_input"}
    /\ rec.message = Request
IsPrefix(a, b) == Len(a) <= Len(b) /\ SubSeq(b, 1, Len(a)) = a
InFlight ==
    pc \in {"base", "analyzing", "execute", "task", "completion", "reflect",
            "respond"}
\* the log holds the user's message of the call in flight, and after it
\* only what the tasks of that call recorded
UserMessageRecorded ==
    \E j \in 1..Len(memory_log) :
        /\ IsUserRecord(memory_log[j])
        /\ \A k \in (j + 1)..Len(memory_log) : memory_log[k].kind = "action"

\* C27: in every handle_request call the inbound message is appended as a
\* ConversationMemory (role user, importance 0.8, tags {"conversation",
\* "user_input"}) first: before the language model is asked for the analysis
\* and before any tool is invoked; the record stays in the log whatever the
\* call ends with.  (A call whose add_memory is refused by the store ends at
\* once, with neither analysis nor tool.)
C27_UserMessageFirst ==
    [][/\ calls' = calls + 1 =>
             \/ /\ Len(memory_log') = Len(memory_log) + 1
                /\ memory_log' = Append(memory_log, Last(memory_log'))
                /\ IsUserRecord(Last(memory_log'))
                /\ pc' = "base"
                /\ analysis_response' = NoAnalysis
                /\ invoked' = invoked
             \/ /\ memory_log' = memory_log
                /\ pc' = "returned"
                /\ response' = ErrorResponse(MsgMemory)
                /\ invoked' = invoked
       /\ InFlight' => UserMessageRecorded'
       /\ (calls' = calls /\ analysis_response' # analysis_response) =>
             pc = "analyzing" /\ UserMessageRecorded
       /\ invoked' # invoked => pc = "task" /\ UserMessageRecorded
       /\ IsPrefix(memory_log, memory_log')]_vars

\* the user's message is the latest record while the language model is
\* being asked for the analysis and no tool has run in this call
C27_Witness ==
    /\ pc = "analyzing"
    /\ analysis_response = NoAnalysis
    /\ memory_log # <<>>
    /\ IsUserRecord(Last(memory_log))
    /\ calls = 2

IsAssistantRecord(rec) ==
    /\ rec.kind = "conversation"
    /\ rec.role = "assistant"
AssistantRecords(log) ==
    Cardinality({j \in 1..Len(log) : IsAssistantRecord(log[j])})
RespondStep == pc = "respond" /\ pc' = "returned"

\* C28: handle_request appends an assistant ConversationMemory only when the
\* call completes successfully, and then exactly once, before the completion
\* response is returned; a call that ends in an error response appends none.
C28_AssistantOnlyOnSuccess ==
    [][/\ AssistantRecords(memory_log') # AssistantRecords(memory_log) =>
             /\ RespondStep
             /\ AssistantRecords(memory_log') = AssistantRecords(memory_log) + 1
             /\ IsCompletion(response')
       /\ (RespondStep /\ (IsErrorShape(response') \/ IsStatusErrorShape(response'))) =>
             memory_log' = memory_log]_vars

\* what the code keeps: the assistant record is written by the last step of
\* a call, at most once, and never for a reply whose status is "error"
AssistantUnlessStatusError ==
    [][AssistantRecords(memory_log') # AssistantRecords(memory_log) =>
          /\ RespondStep
          /\ memory_log' = Append(memory_log, Last(memory_log'))
          /\ ~IsStatusErrorShape(response')]_vars

AllTasksExecuted ==
    /\ understanding.present /\ understanding.is_process
    /\ understanding.has_tasks
    /\ Len(results) = Len(understanding.required_tasks)
    /\ \A k \in 1..Len(results) : ~SignalsUserInput(results[k])
ProcessReturned == procResult # NoResponse
CompletedResponse ==
    [is_complete |-> TRUE, results |-> results,
     message |-> "completion message", reflection |-> "reflection"]

\* C29: when all tasks of a process have been executed and none asked for
\* user input, the process flow calls the language model twice (completion
\* message, then reflection), both times after the last task, and returns a
\* completed response with every task result in task order, the message and
\* the reflection (or the error of a language-model call that failed).
C29_CompletionAndReflection ==
    /\ pc \in {"completion", "reflect"} =>
          Len(results) = Len(understanding.required_tasks)
    /\ (AllTasksExecuted /\ ProcessReturned) =>
          procResult \in {CompletedResponse, ErrorResponse(MsgLLM)}

\* what the code does: a process that ran a task never completes
CompletionOnlyWithoutTasks ==
    /\ Truthy(procResult, "is_complete") => results = <<>>
    /\ pc \in {"completion", "reflect"} => results = <<>>

\* the process flow ended in its except clause, on an exception raised in
\* the loop or after it
ProcessLoopFailed == IsErrorShape(procResult) /\ understanding.has_tasks

\* C30: when an exception occurs inside the process loop (in a task, in the
\* completion message or in the reflection), handle_request returns an
\* {error: string} response, not {status: "processing"} and not a completion
\* response.
C30_LoopErrorSurfaced ==
    (Returned /\ ProcessLoopFailed) =>
        /\ IsErrorShape(response)
        /\ response.error # ""

\* what the code does: the error response of the process flow is answered
\* with {status: "processing"}, unless the memory write of the reply fails
LoopErrorAnsweredProcessing ==
    (Returned /\ ProcessLoopFailed) =>
        \/ IsProcessingShape(response)
        \/ response = ErrorResponse(MsgMemory)

\* what call c created for itself, and that context once the analysis of
\* its own prompt is written into it
OwnContext(c) == ProcessContext(Message(c), ProjectContextOf(c))
OwnPrompt(c) == AnalysisPrompt(OwnContext(c))
OwnAnalysedContext(c) == update_context(OwnContext(c), OwnPrompt(c))

PromptIsOwn(c) ==
    flight[c].prompt # NoPrompt => flight[c].prompt = OwnPrompt(c)
ToolContextIsOwn(c) ==
    /\ flight[c].context # NotCalled => flight[c].context = OwnAnalysedContext(c)
    /\ \A n \in ToolNames :
          flight[c].passed[n] # NotCalled =>
              \A k \in DOMAIN flight[c].passed[n] :
                  flight[c].passed[n][k] = OwnAnalysedContext(c)[k]
ClarificationIsOwn(c) ==
    IsClarification(flight[c].reply) =>
        flight[c].reply.context = ProjectContextOf(c)

\* C31: whatever the interleaving of two calls at their awaits, the request
\* text, project context, inferred details and confidence metrics a call
\* uses in its prompt, in the context handed to its tools and in its
\* clarification response are those of the ProcessContext it created.
C31_CallsIsolated ==
    \A c \in Calls :
        PromptIsOwn(c) /\ ToolContextIsOwn(c) /\ ClarificationIsOwn(c)

\* the analysis prompt is built before the first await of the inner call
PromptsAreOwn == \A c \in Calls : PromptIsOwn(c)

\* a call that was alone between its entry and the answer of the language
\* model used its own context
OtherEntered(c) == \E d \in Calls \ {c} : flight[d].prompt # NoPrompt
AloneIsIsolated ==
    \A c \in Calls :
        ~OtherEntered(c) => (ToolContextIsOwn(c) /\ ClarificationIsOwn(c))

\* the records the add_memory calls of the step just taken were passed
Passed == IF lastOp.op = "add_memory" THEN lastOp.value ELSE <<>>

\* C32: the memory log is append-only under concurrent writers: a step of
\* either call leaves the log as it was, followed by exactly the records
\* its add_memory calls were passed, in the order of the calls; a record
\* equal to one already in the log is appended like any other.
C32_AppendOnly ==
    [][/\ Len(memory_log') = Len(memory_log) + Len(Passed')
       /\ IsPrefix(memory_log, memory_log')
       /\ SubSeq(memory_log', Len(memory_log) + 1, Len(memory_log')) = Passed'
      ]_vars

\* both calls have run the same task with the same outcome: the log holds
\* two equal ActionMemory records, among the records of both calls
C32_Witness ==
    /\ \A c \in Calls : flight[c].pc = "returned"
    /\ \E i, j \in 1..Len(memory_log) :
          /\ i < j
          /\ memory_log[i] = memory_log[j]
          /\ memory_log[i].kind = "action"
    /\ Len(memory_log) = 6

\* the last step was a query of the memory manager
Queried == lastOp.op = "query_memories"
Answer == lastOp.value.records
AnswerPositions == lastOp.value.positions
Matching(tags, importance_threshold) ==
    {p \in 1..Len(memory_log) : Matches(memory_log[p], tags, importance_threshold)}

AnswerWellFormed ==
    /\ lastOp.error = NoError
    /\ Len(Answer) <= lastOp.arg.limit
    /\ Len(AnswerPositions) = Len(Answer)
    /\ \A i \in 1..Len(Answer) :
          /\ AnswerPositions[i] \in 1..Len(memory_log)
          /\ Answer[i] = memory_log[AnswerPositions[i]]
          /\ Answer[i].importance >= lastOp.arg.importance_threshold
          /\ lastOp.arg.tags.given =>
                Answer[i].tags \cap lastOp.arg.tags.tags # {}
    /\ \A i, j \in 1..Len(Answer) :
          (i < j /\ Relevance(Answer[i]) = Relevance(Answer[j]))
              => AnswerPositions[i] > AnswerPositions[j]
    /\ Matching(lastOp.arg.tags, lastOp.arg.importance_threshold) = {}
          => Answer = <<>>

\* C33: query_memories(tags, importance_threshold, limit=N) returns at most
\* N records of the log, each with importance >= importance_threshold and,
\* when tags are given, with a tag among them; among equally relevant
\* records the more recent comes first; when nothing matches the answer is
\* the empty sequence and no error; the log is left as it was.
C33_QueryMemories ==
    [][Queried' => (memory_log' = memory_log /\ AnswerWellFormed')]_vars

\* a query for one record with tags and a threshold, on a log with several
\* matching records and one that is not important enough: the answer is the
\* most recent matching record
C33_Witness ==
    /\ Queried
    /\ lastOp.arg.limit = 1 /\ lastOp.arg.tags.given
    /\ lastOp.arg.importance_threshold = 90
    /\ Cardinality(Matching(lastOp.arg.tags, 90)) > 1
    /\ \E p \in 1..Len(memory_log) :
          /\ memory_log[p].tags \cap lastOp.arg.tags.tags # {}
          /\ memory_log[p].importance < 90
    /\ Len(Answer) = 1
    /\ \A p \in Matching(lastOp.arg.tags, 90) :
          Relevance(memory_log[p]) = Relevance(Answer[1])
              => p <= AnswerPositions[1]

\* a query that nothing matches is answered with the empty sequence
EmptyAnswerReached ==
    /\ Queried /\ memory_log # <<>> /\ Answer = <<>> /\ lastOp.error = NoError

ActionQuery ==
    /\ Queried
    /\ lastOp.arg.tags = Tags({"action"})
    /\ lastOp.arg.importance_threshold = 90

\* C34: whatever the orchestrator has written, query_memories(tags =
\* {"action"}, importance_threshold = 0.9) returns only ActionMemory records,
\* each with importance >= 0.9, the most recent first; no ConversationMemory
\* and no KnowledgeMemory is in the answer, also when a task's type is the
\* string "action" and its KnowledgeMemory carries that tag.
C34_OnlyActionMemories ==
    ActionQuery =>
        /\ \A i \in 1..Len(Answer) :
              /\ Answer[i].kind = "action"
              /\ Answer[i].importance >= 90
        /\ \A i, j \in 1..Len(Answer) :
              i < j => AnswerPositions[i] > AnswerPositions[j]

\* the log holds a user message, the ActionMemory of a task of type
\* "action" and its KnowledgeMemory, tagged "action" too; the query
\* returned the ActionMemory alone
C34_Witness ==
    /\ ActionQuery
    /\ lastOp.arg.limit = 2
    /\ \E p \in 1..Len(memory_log) :
          /\ memory_log[p].kind = "knowledge"
          /\ "action" \in memory_log[p].tags
    /\ \E p \in 1..Len(memory_log) : memory_log[p].kind = "conversation"
    /\ Len(Answer) = 1
    /\ Answer[1].kind = "action" /\ Answer[1].action_type = "action"

\* the process flow has ended, one of its tasks failed and none asked for
\* user input
EndedWithFailedTask ==
    /\ ProcessReturned
    /\ understanding.present /\ understanding.is_process
    /\ understanding.has_tasks
    /\ \E k \in 1..Len(results) : ~results[k].success
    /\ \A k \in 1..Len(results) : ~SignalsUserInput(results[k])

\* C35: a task that fails without asking for user input does not stop the
\* loop: when the process flow ends, every task of the process has been
\* executed, in order, the failed one included.
C35_FailureDoesNotStopLoop ==
    EndedWithFailedTask =>
        /\ Len(results) = Len(understanding.required_tasks)
        /\ started = [i \in 1..Len(understanding.required_tasks) |-> i]

\* what the code does: the loop ends after its first turn, whatever the
\* result of the task
LoopEndsAfterFirstTask ==
    ProcessReturned => (Len(results) <= 1 /\ Len(started) <= 1)

\* the step started no task of the call in flight
NoTaskStarted == started' = started \/ started' = <<>>

\* the records the step appended to the memory log
NewRecords == SubSeq(memory_log', Len(memory_log) + 1, Len(memory_log'))

\* C36: a call answered with a clarification has executed nothing: it went
\* from its analysis to its reply without entering _execute_request, and the
\* steps of a call that start no task prepare and invoke no tool, call
\* neither dispatcher nor planner, leave the tool result cache and the
\* prepared tool sets as they were and append no ActionMemory and no
\* KnowledgeMemory.
C36_ClarificationExecutesNothing ==
    [][/\ (IsClarification(baseResult') \/ IsClarification(response')) =>
             (started' = <<>> /\ results' = <<>> /\ procResult' = NoResponse)
       /\ NoTaskStarted =>
             /\ tool_cache' = tool_cache
             /\ current_task_tools' = current_task_tools
             /\ invoked' = invoked /\ passed' = passed
             /\ lastOp' = lastOp /\ lastChain' = lastChain
             /\ \A i \in 1..Len(NewRecords) : NewRecords[i].kind = "conversation"
      ]_vars

\* the second call was answered with a clarification, while the cache
\* holds what the first call's task stored
C36_Witness ==
    /\ Returned /\ calls = 2
    /\ IsClarification(response)
    /\ started = <<>>
    /\ tool_cache # EmptyMap
    /\ \E i \in 1..Len(memory_log) : memory_log[i].kind = "action"

\* Tool.execute calls of tool n made by the two calls together
TotalInvocations(n) == flight["A"].invoked[n] + flight["B"].invoked[n]
TaskRan(c) == flight[c].result # NoResponse

\* C37 as stated: the two calls together invoke each tool's capability at
\* most once, there being no clear_cache in between.
C37_AtMostOnceInTotal == \A n \in ToolNames : TotalInvocations(n) <= 1

\* C37 as the code has it: a call invokes a tool at most once; when both
\* calls invoked the same tool, the task of one of them failed (a failed
\* invocation stores nothing in the cache); and a tool that was invoked
\* while every task succeeded has its entry in the cache.
C37_AtMostOneSuccessfulInvocation ==
    \A n \in ToolNames :
        /\ \A c \in Calls : flight[c].invoked[n] <= 1
        /\ TotalInvocations(n) = 2 =>
              \E c \in Calls : TaskRan(c) /\ ~flight[c].result.success
        /\ (TotalInvocations(n) >= 1 /\
            \A c \in Calls : TaskRan(c) => flight[c].result.success)
              => CacheHit(tool_cache, n)

\* both calls ran the chain of place_structure: one invoked the builder,
\* the other was served from the cache
C37_Witness ==
    /\ \A c \in Calls :
          /\ flight[c].understanding.required_tasks = <<"place_structure">>
          /\ TaskRan(c) /\ flight[c].result.success
    /\ TotalInvocations("builder") = 1
    /\ \E c \in Calls :
          /\ flight[c].invoked["builder"] = 0
          /\ flight[c].result.artifacts.tool_results["builder"].success

\* a response that ends the request: a clarification, a completion or an
\* error
TerminalOutcome(r) ==
    \/ IsClarificationShape(r)
    \/ IsCompletion(r)
    \/ IsErrorShape(r)
    \/ IsStatusErrorShape(r)

\* C38: provided every awaited call returns, a handle_request call that was
\* received reaches a terminal outcome: it returns a clarification, a
\* completion or an error, and does not stay analyzing or executing.
C38_ReachesTerminalOutcome ==
    InFlight ~> (Returned /\ TerminalOutcome(response))

\* what the code does: every call returns a response
CallEventuallyReturns == InFlight ~> Returned

\* and the response of a call that ran a task is {"status": "processing"},
\* or the error of a refused memory write
TaskCallAnsweredProcessing ==
    (Returned /\ results # <<>>) =>
        (IsProcessingShape(response) \/ response = ErrorResponse(MsgMemory))

=============================================================================
